---- MODULE Spec2Model ----
(***************************************************************************)
(* Fan engagement backend: the SQLite store (memory/database.py), the      *)
(* prediction evaluator (predictions/engine.py) and the request handlers   *)
(* (main.py) that drive them.                                              *)
(*                                                                         *)
(* The store is one record, db, with one field per table.  A table that    *)
(* carries a UNIQUE / PRIMARY KEY constraint is kept as the sequence of    *)
(* its rows per key, so that the constraint is something the insert has to *)
(* enforce and not something the representation gives for free.           *)
(* Every Database method is an operator from a store to a result           *)
(* [db, ret, raised]; a handler is the composition of the methods it       *)
(* calls, in the order of the source.                                      *)
(***************************************************************************)
EXTENDS Integers, Sequences, FiniteSets, TLC

VARIABLES
    db,         \* the SQLite database: users, quiz_progress, completed_levels, ...
    request,    \* the request served by the last sequential step
    response,   \* the response it was given
    ledger,     \* history: the points_earned reported to each user id so far
    faults,     \* history: the number of store failures injected so far
    pc,         \* concurrent requests: the position of each request
    local,      \* concurrent requests: the arguments and locals of each request
    db0         \* concurrent requests: the store when the requests arrived

vars == <<db, request, response, ledger, faults, pc, local, db0>>

----------------------------------------------------------------------------
(* Bounds of the model *)

MaxQuestions == 2       \* questions in one submitted quiz
MaxAttempts == 2        \* rows of quiz_history
MaxPredictions == 1     \* rows of predictions
MaxFaults == 1          \* injected store failures

(* Program constants *)

points_per_question == 10
QuizSize == 10

----------------------------------------------------------------------------
(* The values requests are drawn from *)

UserIds == {"alice", "bob"}
Teams == {"Lakers", "Celtics"}
Levels == {"Easy", "Medium", "Hard"}
Sports == {"soccer", "nba"}
\* the two requests that run concurrently
Procs == {"r1", "r2"}

\* the ids of one team and level that has more questions than a quiz holds
CelticsHardIds ==
    <<"CH01", "CH02", "CH03", "CH04", "CH05", "CH06", "CH07", "CH08", "CH09", "CH10",
      "CH11">>

\* questions.json: the flat static pool (id, team, level, options, correctAnswerIndex)
QuestionBank ==
    { [id |-> "LE1", team |-> "Lakers", level |-> "Easy",
       options |-> <<"Kobe", "Shaq">>, correctAnswerIndex |-> 0],
      [id |-> "LE2", team |-> "Lakers", level |-> "Easy",
       options |-> <<"Kobe", "Shaq">>, correctAnswerIndex |-> 1],
      [id |-> "LM1", team |-> "Lakers", level |-> "Medium",
       options |-> <<"Kobe", "Shaq">>, correctAnswerIndex |-> 0],
      [id |-> "CE1", team |-> "Celtics", level |-> "Easy",
       options |-> <<"Kobe", "Shaq">>, correctAnswerIndex |-> 1] }
    \cup { [id |-> CelticsHardIds[i], team |-> "Celtics", level |-> "Hard",
            options |-> <<"Kobe", "Shaq">>, correctAnswerIndex |-> 0] :
                i \in DOMAIN CelticsHardIds }

\* the ids of the questions in the order of the list in questions.json
QuestionFileIds == <<"LE1", "LE2", "LM1", "CE1">> \o CelticsHardIds

\* what a client may put in the "questions" list of a submission: a question of
\* the pool as it was displayed, or one whose id the pool does not know
KnownQuestion == [id |-> "LE1", options |-> <<"Kobe", "Shaq">>]
UnknownQuestion == [id |-> "XX9", options |-> <<"Kobe", "Shaq">>]

\* answer texts; "" stands for an index missing from the answers dict
AnswerTexts == {"", " kobe "}

\* str.strip().lower() on the texts of the model
Normalize(s) ==
    CASE s = " kobe " -> "kobe"
      [] s = "Kobe" -> "kobe"
      [] s = "Shaq" -> "shaq"
      [] OTHER -> s

SeqsUpTo(S, n) == UNION { [1..k -> S] : k \in 0..n }

----------------------------------------------------------------------------
(* Arithmetic *)

RECURSIVE Gcd(_, _)
Gcd(a, b) == IF b = 0 THEN a ELSE Gcd(b, a % b)

\* a float that is a ratio of two small integers, kept exact and in lowest terms
Ratio(a, b) == LET g == Gcd(a, b) IN [num |-> a \div g, den |-> b \div g]

Min(a, b) == IF a <= b THEN a ELSE b

\* the result of a Database method: the store afterwards, the value returned,
\* and whether the method raised instead of returning
Returned(d, v) == [db |-> d, ret |-> v, raised |-> FALSE]

----------------------------------------------------------------------------
(* memory/database.py: the schema *)

Pairs == UserIds \X Teams

\* init_db: six empty tables
EmptyDb ==
    [ users            |-> [u \in UserIds |-> << >>],
      quiz_progress    |-> [k \in Pairs |-> << >>],
      completed_levels |-> {},
      asked_questions  |-> [k \in Pairs |-> << >>],
      predictions      |-> << >>,
      quiz_history     |-> << >>,
      chat_history     |-> << >> ]

(* memory/database.py: users *)

\* INSERT INTO users; the PRIMARY KEY turns a second insert into IntegrityError
create_user(d, user_id, favorite_team) ==
    IF d.users[user_id] # << >>
    THEN Returned(d, [success |-> FALSE])
    ELSE Returned([d EXCEPT !.users[user_id] =
                        <<[user_id |-> user_id, favorite_team |-> favorite_team,
                           total_points |-> 0, badges |-> << >>]>>],
                  [success |-> TRUE])

\* fetchone(): << >> is None, <<row>> is the row
get_user(d, user_id) ==
    IF d.users[user_id] = << >> THEN << >> ELSE <<Head(d.users[user_id])>>

\* UPDATE users SET total_points = total_points + ? WHERE user_id = ?
\* the balance written back from a copy read when the requests arrived
WriteBackTotalPoints(d, user_id, points) ==
    [d EXCEPT !.users[user_id] =
        [i \in DOMAIN @ |->
            [@[i] EXCEPT !.total_points =
                (IF db0.users[user_id] # << >>
                 THEN db0.users[user_id][1].total_points ELSE 0) + points]]]

\* UPDATE users SET total_points = ? WHERE user_id = ?
\* the balance replaced by the award
SetTotalPoints(d, user_id, points) ==
    [d EXCEPT !.users[user_id] =
        [i \in DOMAIN @ |-> [@[i] EXCEPT !.total_points = points]]]

\* UPDATE users SET total_points = total_points + ? WHERE user_id = ?
\* one statement: no row is written when the user has none
IncrementTotalPoints(d, user_id, points) ==
    [d EXCEPT !.users[user_id] =
        [i \in DOMAIN @ |-> [@[i] EXCEPT !.total_points = @ + points]]]

update_user_points(d, user_id, points) == IncrementTotalPoints(d, user_id, points)

add_quiz_points(d, user_id, points) == update_user_points(d, user_id, points)

(* memory/database.py: quiz progress *)

get_quiz_progress(d, user_id, team) ==
    LET rows == d.quiz_progress[<<user_id, team>>]
    IN  IF rows = << >> THEN << >> ELSE <<Head(rows)>>

\* the row of a new pair; the integer 1 is stored as current_level
NewProgressRow ==
    [current_level |-> "1", current_question_index |-> 0,
     level_score |-> 0, total_correct |-> 0]

\* INSERT OR REPLACE in place of INSERT: an existing row is reset
create_quiz_progress_replace(d, user_id, team) ==
    Returned([d EXCEPT !.quiz_progress[<<user_id, team>>] = <<NewProgressRow>>],
             [success |-> TRUE, existing |-> FALSE])

\* the table without UNIQUE(user_id, team): every insert adds a row
create_quiz_progress_no_unique(d, user_id, team) ==
    Returned([d EXCEPT !.quiz_progress[<<user_id, team>>] = Append(@, NewProgressRow)],
             [success |-> TRUE, existing |-> FALSE])

\* INSERT INTO quiz_progress ... VALUES (?, ?, 1, 0, 0, 0); UNIQUE(user_id, team)
\* raises IntegrityError, which the method swallows
create_quiz_progress(d, user_id, team) ==
    IF d.quiz_progress[<<user_id, team>>] # << >>
    THEN Returned(d, [success |-> TRUE, existing |-> TRUE])
    ELSE Returned([d EXCEPT !.quiz_progress[<<user_id, team>>] = <<NewProgressRow>>],
                  [success |-> TRUE, existing |-> FALSE])

\* UPDATE quiz_progress SET ... WHERE user_id = ? AND team = ?
\* INSERT OR REPLACE INTO quiz_progress: a pair without a row gets one
update_quiz_progress_upsert(d, user_id, team, current_level, current_question_index, level_score, total_correct) ==
    [d EXCEPT !.quiz_progress[<<user_id, team>>] =
        <<[current_level |-> current_level,
           current_question_index |-> current_question_index,
           level_score |-> level_score,
           total_correct |-> total_correct]>>]

\* UPDATE quiz_progress SET current_level = ?: the three counters are not written
update_quiz_progress_level_only(d, user_id, team, current_level, current_question_index, level_score, total_correct) ==
    [d EXCEPT !.quiz_progress[<<user_id, team>>] =
        [i \in DOMAIN @ |-> [@[i] EXCEPT !.current_level = current_level]]]

\* UPDATE quiz_progress SET ... WHERE user_id = ? AND team = ?
update_quiz_progress(d, user_id, team, current_level, current_question_index, level_score, total_correct) ==
    [d EXCEPT !.quiz_progress[<<user_id, team>>] =
        [i \in DOMAIN @ |->
            [current_level |-> current_level,
             current_question_index |-> current_question_index,
             level_score |-> level_score,
             total_correct |-> total_correct]]]

\* INSERT in place of INSERT OR REPLACE, on a table without the UNIQUE constraint
complete_level_insert(d, user_id, team, level, score) ==
    [d EXCEPT !.completed_levels =
        @ \cup {[user_id |-> user_id, team |-> team, level |-> level, score |-> score]}]

\* INSERT OR REPLACE INTO completed_levels; UNIQUE(user_id, team, level)
complete_level(d, user_id, team, level, score) ==
    [d EXCEPT !.completed_levels =
        {r \in @ : ~(r.user_id = user_id /\ r.team = team /\ r.level = level)}
        \cup {[user_id |-> user_id, team |-> team, level |-> level, score |-> score]}]

\* INSERT INTO quiz_history
add_quiz_attempt(d, user_id, team, difficulty, score) ==
    [d EXCEPT !.quiz_history =
        Append(@, [user_id |-> user_id, team |-> team,
                   difficulty |-> difficulty, score |-> score])]

(* memory/database.py: asked questions *)

\* INSERT INTO asked_questions on a table without the UNIQUE constraint
record_asked_question_no_unique(d, user_id, team, question_id) ==
    [d EXCEPT !.asked_questions[<<user_id, team>>] = Append(@, question_id)]

\* INSERT INTO asked_questions; UNIQUE(user_id, team, question_id) raises
\* IntegrityError for an id already recorded, which the method ignores
record_asked_question(d, user_id, team, question_id) ==
    IF \E i \in DOMAIN d.asked_questions[<<user_id, team>>] :
            d.asked_questions[<<user_id, team>>][i] = question_id
    THEN d
    ELSE [d EXCEPT !.asked_questions[<<user_id, team>>] = Append(@, question_id)]

get_asked_questions(d, user_id, team) == d.asked_questions[<<user_id, team>>]

\* DELETE FROM asked_questions without the WHERE clause
reset_asked_questions_all(d, user_id, team) ==
    [d EXCEPT !.asked_questions = [k \in Pairs |-> << >>]]

\* DELETE FROM asked_questions WHERE user_id = ? AND team = ?
reset_asked_questions(d, user_id, team) ==
    [d EXCEPT !.asked_questions[<<user_id, team>>] = << >>]

(* memory/database.py: predictions *)

\* One transaction: INSERT INTO predictions, UPDATE users, commit.  fail_at names
\* the statement that raises (0: none, 1: the INSERT, 2: the UPDATE, 3: the
\* commit); the except branch rolls the transaction back.
save_prediction(d, user_id, team1, team2, user_prediction, system_outcome, points, sport, fail_at) ==
    LET inserted ==
            [d EXCEPT !.predictions =
                Append(@, [user_id |-> user_id, team1 |-> team1, team2 |-> team2,
                           predicted_winner |-> user_prediction,
                           predicted_score |-> sport,
                           actual_outcome |-> system_outcome,
                           points_earned |-> points])]
        updated == IncrementTotalPoints(inserted, user_id, points)
    IN  IF fail_at = 0
        THEN Returned(updated, [success |-> TRUE, points_earned |-> points])
        ELSE Returned(d, [success |-> FALSE])

----------------------------------------------------------------------------
(* predictions/engine.py *)

\* a third outcome: the match is drawn when team1 does not win
generate_prediction_with_draw(team1, team2, t1_wins) ==
    IF t1_wins
    THEN [predicted_winner |-> team1, predicted_loser |-> team2]
    ELSE [predicted_winner |-> "Draw", predicted_loser |-> team2]

\* rand < t1_win_prob decides the winner; the probability is strictly between
\* 0 and 1 for every pair of teams, so both outcomes can be drawn
generate_prediction(team1, team2, t1_wins) ==
    IF t1_wins
    THEN [predicted_winner |-> team1, predicted_loser |-> team2]
    ELSE [predicted_winner |-> team2, predicted_loser |-> team1]

\* the rule of the other sports applied to every sport: no draw, one reward
evaluate_prediction_winner_only(user_prediction, system_outcome, sport) ==
    LET is_correct == user_prediction = system_outcome
    IN  [is_correct |-> is_correct, points |-> IF is_correct THEN 25 ELSE 0]

\* the participation reward of the reward tool given to a wrong guess
evaluate_prediction_participation(user_prediction, system_outcome, sport) ==
    LET is_correct == user_prediction = system_outcome
    IN  [is_correct |-> is_correct, points |-> IF is_correct THEN 25 ELSE 10]

evaluate_prediction(user_prediction, system_outcome, sport) ==
    IF sport = "soccer"
    THEN IF user_prediction = "Draw"
         THEN LET is_correct == system_outcome = "Draw"
              IN  [is_correct |-> is_correct, points |-> IF is_correct THEN 50 ELSE 0]
         ELSE LET is_correct == user_prediction = system_outcome
              IN  [is_correct |-> is_correct, points |-> IF is_correct THEN 30 ELSE 0]
    ELSE LET is_correct == user_prediction = system_outcome
         IN  [is_correct |-> is_correct, points |-> IF is_correct THEN 25 ELSE 0]

----------------------------------------------------------------------------
(* main.py: quiz submission *)

Error500(op) == [op |-> op, status |-> 500]

\* the correct answer of a submitted question: looked up in questions.json by id,
\* read from the options the request carries; "" when the id is unknown
CorrectAnswer(question) ==
    LET known == {q \in QuestionBank : q.id = question.id}
    IN  IF known = {} THEN ""
        ELSE LET q_data == CHOOSE q \in known : TRUE
             IN  IF q_data.correctAnswerIndex < Len(question.options)
                 THEN question.options[q_data.correctAnswerIndex + 1]
                 ELSE ""

\* the loop over request.questions: one result per question
QuizResults(questions, answers) ==
    [idx \in 1..Len(questions) |->
        LET correct_answer == CorrectAnswer(questions[idx])
            user_answer == answers[idx]
        IN  [user_answer |-> user_answer,
             correct_answer |-> correct_answer,
             is_correct |-> Normalize(user_answer) = Normalize(correct_answer)]]

CorrectCount(results) == Cardinality({i \in DOMAIN results : results[i].is_correct})

\* correct_count / total_count * 100, and 0 for an empty quiz
ScorePercentage(correct_count, total_count) ==
    IF total_count > 0 THEN Ratio(correct_count * 100, total_count) ELSE Ratio(0, 1)

\* level_progression.get(level, level) of submit_quiz and mark_level_complete
NextLevel(level) ==
    CASE level = "Easy" -> "Medium"
      [] level = "Medium" -> "Hard"
      [] level = "Hard" -> "Hard"
      [] OTHER -> level

\* submit_quiz.  Every store call commits on its own connection; fail_at names
\* the store call that raises (0: none, 1: add_quiz_points, 2: complete_level,
\* 3: update_quiz_progress, 4: add_quiz_attempt), which ends the request in the
\* except branch with status 500.
submit_quiz(d, req, fail_at) ==
    LET progress == get_quiz_progress(d, req.user_id, req.team)
        created == IF progress = << >>
                   THEN create_quiz_progress(d, req.user_id, req.team)
                   ELSE Returned(d, progress)
        results == QuizResults(req.questions, req.answers)
        correct_count == CorrectCount(results)
        total_count == Len(req.questions)
        score_percentage == ScorePercentage(correct_count, total_count)
        points_earned == correct_count * points_per_question
        d1 == add_quiz_points(created.db, req.user_id, points_earned)
        d2 == complete_level(d1, req.user_id, req.team, req.level, score_percentage)
        next_level == NextLevel(req.level)
        d3 == update_quiz_progress(d2, req.user_id, req.team, next_level, 0, 0, 0)
        d4 == add_quiz_attempt(d3, req.user_id, req.team, "level_" \o req.level,
                               score_percentage)
        user == get_user(d4, req.user_id)
        total_points == IF user # << >> THEN user[1].total_points ELSE 0
    IN  CASE created.raised -> [db |-> created.db, response |-> Error500("submit_quiz")]
          [] ~created.raised /\ fail_at = 1 ->
                [db |-> created.db, response |-> Error500("submit_quiz")]
          [] ~created.raised /\ fail_at = 2 ->
                [db |-> d1, response |-> Error500("submit_quiz")]
          [] ~created.raised /\ fail_at = 3 ->
                [db |-> d2, response |-> Error500("submit_quiz")]
          [] ~created.raised /\ fail_at = 4 ->
                [db |-> d3, response |-> Error500("submit_quiz")]
          [] OTHER ->
                [db |-> d4,
                 response |-> [op |-> "submit_quiz", status |-> 200,
                               score |-> score_percentage,
                               correct |-> correct_count,
                               total |-> total_count,
                               points_earned |-> points_earned,
                               level |-> req.level,
                               total_points |-> total_points]]

(* main.py: prediction submission *)

\* submit_prediction: the result of save_prediction is not looked at, so the
\* response reports success and the evaluated points whatever the store did
submit_prediction(d, req, t1_wins, fail_at) ==
    LET system_prediction == generate_prediction(req.team1, req.team2, t1_wins)
        system_outcome == system_prediction.predicted_winner
        evaluated == evaluate_prediction(req.user_prediction, system_outcome, req.sport)
        result == save_prediction(d, req.user_id, req.team1, req.team2,
                                  req.user_prediction, system_outcome,
                                  evaluated.points, req.sport, fail_at)
    IN  [db |-> result.db,
         response |-> [op |-> "submit_prediction", status |-> 200,
                       user_prediction |-> req.user_prediction,
                       system_outcome |-> system_outcome,
                       is_correct |-> evaluated.is_correct,
                       points_earned |-> evaluated.points]]

(* main.py: quiz progress *)

\* init_quiz_progress: the result of create_quiz_progress is not looked at
init_quiz_progress(d, user_id, team) ==
    LET result == create_quiz_progress(d, user_id, team)
    IN  IF result.raised
        THEN [db |-> result.db, response |-> Error500("init_quiz_progress")]
        ELSE [db |-> result.db,
              response |-> [op |-> "init_quiz_progress", status |-> 200,
                            success |-> TRUE]]

\* get_progress without the "if progress" test: None is subscripted, the
\* TypeError becomes a 500
get_progress_unguarded(d, user_id, team) ==
    LET progress == get_quiz_progress(d, user_id, team)
    IN  IF progress # << >>
        THEN [op |-> "get_progress", status |-> 200, has_progress |-> TRUE,
              current_level |-> progress[1].current_level,
              current_question_index |-> progress[1].current_question_index,
              level_score |-> progress[1].level_score,
              total_correct |-> progress[1].total_correct]
        ELSE [op |-> "get_progress", status |-> 500, has_progress |-> FALSE]

get_progress(d, user_id, team) ==
    LET progress == get_quiz_progress(d, user_id, team)
    IN  IF progress # << >>
        THEN [op |-> "get_progress", status |-> 200, has_progress |-> TRUE,
              current_level |-> progress[1].current_level,
              current_question_index |-> progress[1].current_question_index,
              level_score |-> progress[1].level_score,
              total_correct |-> progress[1].total_correct]
        ELSE [op |-> "get_progress", status |-> 200, has_progress |-> FALSE]

update_progress(d, user_id, team, current_level, current_question_index, level_score, total_correct) ==
    [db |-> update_quiz_progress(d, user_id, team, current_level,
                                 current_question_index, level_score, total_correct),
     response |-> [op |-> "update_progress", status |-> 200, success |-> TRUE]]

mark_level_complete(d, user_id, team, level, score) ==
    LET d1 == complete_level(d, user_id, team, level, score)
        next_level == NextLevel(level)
    IN  [db |-> update_quiz_progress(d1, user_id, team, next_level, 0, 0, 0),
         response |-> [op |-> "mark_level_complete", status |-> 200,
                       success |-> TRUE, level_completed |-> level,
                       next_level |-> next_level, score |-> score]]

\* a level_progression that starts over after the last level
ChoiceNextLevelAround(level) ==
    CASE level = "Easy" -> <<"Medium">>
      [] level = "Medium" -> <<"Hard">>
      [] level = "Hard" -> <<"Easy">>
      [] OTHER -> << >>

\* level_progression of handle_level_progression_choice: Hard maps to None
ChoiceNextLevel(level) ==
    CASE level = "Easy" -> <<"Medium">>
      [] level = "Medium" -> <<"Hard">>
      [] OTHER -> << >>

handle_level_progression_choice(d, user_id, team, level, continue_to_next) ==
    IF continue_to_next /\ ChoiceNextLevel(level) # << >>
    THEN LET next_level == ChoiceNextLevel(level)[1]
         IN  [db |-> update_quiz_progress(d, user_id, team, next_level, 0, 0, 0),
              response |-> [op |-> "level_choice", status |-> 200,
                            action |-> "continue", next_level |-> next_level]]
    ELSE [db |-> d,
          response |-> [op |-> "level_choice", status |-> 200,
                        action |-> "stop", current_level |-> level]]

(* main.py: quiz generation *)

\* str.capitalize() on the level texts of the model
Capitalize(s) ==
    CASE s = "easy" -> "Easy"
      [] s = "HARD" -> "Hard"
      [] OTHER -> s

\* the questions of questions.json for a team and a level
TeamLevelQuestions(team, level) ==
    {q \in QuestionBank : q.team = team /\ q.level = level}

\* random.sample(population, k) with duplicates: k members, each drawn from the
\* whole population
SamplesWithReplacement(population, k) == [1..k -> population]

\* random.sample(population, k): any k distinct members, in any order
Samples(population, k) ==
    {sel \in [1..k -> population] : \A i, j \in 1..k : sel[i] = sel[j] => i = j}

\* generate_quiz up to the selection: the level check and the progress row
generate_quiz_progress(d, user_id, team) ==
    IF get_quiz_progress(d, user_id, team) = << >>
    THEN create_quiz_progress(d, user_id, team).db
    ELSE d

\* generate_quiz from the selection on; selected is what random.sample returned
generate_quiz_response(team, level, selected) ==
    [op |-> "generate_quiz", status |-> 200, level |-> level, team |-> team,
     questions |-> [i \in DOMAIN selected |-> selected[i].id],
     total_questions |-> Len(selected),
     total_available |-> Cardinality(TeamLevelQuestions(team, level))]

generate_quiz(d, user_id, team, level, selected) ==
    LET lvl == Capitalize(level)
    IN  IF lvl \notin Levels
        THEN [db |-> d, response |-> [op |-> "generate_quiz", status |-> 400]]
        ELSE IF TeamLevelQuestions(team, lvl) = {}
        THEN [db |-> generate_quiz_progress(d, user_id, team),
              response |-> [op |-> "generate_quiz", status |-> 404]]
        ELSE [db |-> generate_quiz_progress(d, user_id, team),
              response |-> generate_quiz_response(team, lvl, selected)]

\* the members of a set of questions in the order of questions.json
InFileOrder(S) ==
    LET position(q) == CHOOSE i \in DOMAIN QuestionFileIds : QuestionFileIds[i] = q.id
    IN  [i \in 1..Cardinality(S) |->
            CHOOSE q \in S : Cardinality({r \in S : position(r) < position(q)}) = i - 1]

Reverse(seq) == [i \in DOMAIN seq |-> seq[Len(seq) + 1 - i]]

\* the draws of random.sample(population, k) taken for a population that is
\* larger than a quiz: any k distinct members, in file order or in reverse
SamplesInFileOrder(population, k) ==
    UNION { {InFileOrder(S), Reverse(InFileOrder(S))} :
                S \in {T \in SUBSET population : Cardinality(T) = k} }

\* the selections random.sample may return for a request
Selections(team, level) ==
    LET population == TeamLevelQuestions(team, Capitalize(level))
        num_questions == Min(QuizSize, Cardinality(population))
    IN  IF Cardinality(population) <= QuizSize
        THEN Samples(population, num_questions)
        ELSE SamplesInFileOrder(population, num_questions)

\* reset_question_pool
reset_question_pool(d, user_id, team) ==
    [db |-> reset_asked_questions(d, user_id, team),
     response |-> [op |-> "reset_question_pool", status |-> 200]]

----------------------------------------------------------------------------
(* The requests of the model *)

\* the submitted question lists: known and unknown ids in turn, up to MaxQuestions
QuestionList(n) == [i \in 1..n |-> IF i % 2 = 1 THEN KnownQuestion ELSE UnknownQuestion]

QuizSheets ==
    { [questions |-> QuestionList(Len(as)), answers |-> as] :
        as \in SeqsUpTo(AnswerTexts, MaxQuestions) }

QuizRequests(users, teams, levels) ==
    { [op |-> "submit_quiz", user_id |-> u, team |-> t, level |-> l,
       questions |-> sh.questions, answers |-> sh.answers] :
        u \in users, t \in teams, l \in levels, sh \in QuizSheets }

PredictionRequests(users) ==
    { [op |-> "submit_prediction", user_id |-> u, team1 |-> "Lakers",
       team2 |-> "Celtics", sport |-> sp, user_prediction |-> g] :
        u \in users, sp \in Sports, g \in {"Lakers", "Celtics", "Draw"} }

NoRequest == [op |-> "none"]
NoResponse == [op |-> "none", status |-> 0]
NoLocal == [op |-> "none"]

ZeroLedger == [quiz |-> [u \in UserIds |-> 0], prediction |-> [u \in UserIds |-> 0]]

Init ==
    /\ db = EmptyDb
    /\ request = NoRequest
    /\ response = NoResponse
    /\ ledger = ZeroLedger
    /\ faults = 0
    /\ pc = [p \in Procs |-> "idle"]
    /\ local = [p \in Procs |-> NoLocal]
    /\ db0 = EmptyDb

concurrent_vars == <<pc, local, db0>>

\* a store failure may be injected while the budget of failures lasts
FaultAllowed(fail_at) == fail_at = 0 \/ faults < MaxFaults
Faulted(fail_at) == IF fail_at = 0 THEN faults ELSE faults + 1

----------------------------------------------------------------------------
(* Sequential requests: one handler per step *)

\* POST /api/user/create
CreateUser(user_id, favorite_team) ==
    LET r == create_user(db, user_id, favorite_team)
    IN  /\ db' = r.db
        /\ request' = [op |-> "create_user", user_id |-> user_id]
        /\ response' = [op |-> "create_user", status |-> 200, success |-> r.ret.success]
        /\ UNCHANGED <<ledger, faults, concurrent_vars>>

\* POST /api/quiz/submit
SubmitQuizWithin(req, fail_at, limit) ==
    /\ Len(db.quiz_history) < limit
    /\ FaultAllowed(fail_at)
    /\ LET r == submit_quiz(db, req, fail_at)
       IN  /\ db' = r.db
           /\ request' = req
           /\ response' = r.response
           /\ ledger' = IF r.response.status = 200
                        THEN [ledger EXCEPT !.quiz[req.user_id] = @ + r.response.points_earned]
                        ELSE ledger
    /\ faults' = Faulted(fail_at)
    /\ UNCHANGED concurrent_vars

SubmitQuiz(req, fail_at) == SubmitQuizWithin(req, fail_at, MaxAttempts)

\* POST /api/predictions/submit
SubmitPrediction(req, t1_wins, fail_at) ==
    /\ Len(db.predictions) < MaxPredictions
    /\ FaultAllowed(fail_at)
    /\ LET r == submit_prediction(db, req, t1_wins, fail_at)
       IN  /\ db' = r.db
           /\ request' = req
           /\ response' = r.response
           /\ ledger' = [ledger EXCEPT !.prediction[req.user_id] =
                                            @ + r.response.points_earned]
    /\ faults' = Faulted(fail_at)
    /\ UNCHANGED concurrent_vars

\* POST /api/user/{user_id}/progress/{team}/init
InitQuizProgress(user_id, team) ==
    LET r == init_quiz_progress(db, user_id, team)
    IN  /\ db' = r.db
        /\ request' = [op |-> "init_quiz_progress", user_id |-> user_id, team |-> team]
        /\ response' = r.response
        /\ UNCHANGED <<ledger, faults, concurrent_vars>>

\* GET /api/user/{user_id}/progress/{team}
GetProgress(user_id, team) ==
    /\ request' = [op |-> "get_progress", user_id |-> user_id, team |-> team]
    /\ response' = get_progress(db, user_id, team)
    /\ UNCHANGED <<db, ledger, faults, concurrent_vars>>

\* POST /api/user/{user_id}/progress/{team}/update
UpdateProgress(user_id, team, current_level, snapshot) ==
    LET r == update_progress(db, user_id, team, current_level,
                             snapshot[1], snapshot[2], snapshot[3])
    IN  /\ db' = r.db
        /\ request' = [op |-> "update_progress", user_id |-> user_id, team |-> team,
                       current_level |-> current_level, snapshot |-> snapshot]
        /\ response' = r.response
        /\ UNCHANGED <<ledger, faults, concurrent_vars>>

\* POST /api/user/{user_id}/progress/{team}/complete-level
MarkLevelComplete(user_id, team, level, score) ==
    LET r == mark_level_complete(db, user_id, team, level, score)
    IN  /\ db' = r.db
        /\ request' = [op |-> "mark_level_complete", user_id |-> user_id,
                       team |-> team, level |-> level, score |-> score]
        /\ response' = r.response
        /\ UNCHANGED <<ledger, faults, concurrent_vars>>

\* POST /api/user/{user_id}/progress/{team}/level-choice
LevelChoice(user_id, team, level, continue_to_next) ==
    LET r == handle_level_progression_choice(db, user_id, team, level, continue_to_next)
    IN  /\ db' = r.db
        /\ request' = [op |-> "level_choice", user_id |-> user_id, team |-> team,
                       level |-> level, continue_to_next |-> continue_to_next]
        /\ response' = r.response
        /\ UNCHANGED <<ledger, faults, concurrent_vars>>

\* GET /api/quiz/generate/{user_id}/{team}/{level}
GenerateQuiz(user_id, team, level) ==
    \E selected \in Selections(team, level) :
        LET r == generate_quiz(db, user_id, team, level, selected)
        IN  /\ db' = r.db
            /\ request' = [op |-> "generate_quiz", user_id |-> user_id,
                           team |-> team, level |-> level]
            /\ response' = r.response
            /\ UNCHANGED <<ledger, faults, concurrent_vars>>

\* POST /api/quiz/reset-pool/{user_id}/{team}
ResetQuestionPool(user_id, team) ==
    LET r == reset_question_pool(db, user_id, team)
    IN  /\ db' = r.db
        /\ request' = [op |-> "reset_question_pool", user_id |-> user_id, team |-> team]
        /\ response' = r.response
        /\ UNCHANGED <<ledger, faults, concurrent_vars>>

\* Database.record_asked_question, the one writer of asked_questions
RecordAskedQuestion(user_id, team, question_id) ==
    /\ db' = record_asked_question(db, user_id, team, question_id)
    /\ request' = [op |-> "record_asked_question", user_id |-> user_id,
                   team |-> team, question_id |-> question_id]
    /\ response' = NoResponse
    /\ UNCHANGED <<ledger, faults, concurrent_vars>>

----------------------------------------------------------------------------
(* The point ledger: users are created, quizzes and predictions are submitted *)

NextLedger ==
    \/ \E u \in UserIds : CreateUser(u, "Lakers")
    \/ \E req \in QuizRequests(UserIds, {"Lakers"}, {"Easy"}) : SubmitQuiz(req, 0)
    \/ \E req \in PredictionRequests(UserIds), t1_wins \in BOOLEAN :
            SubmitPrediction(req, t1_wins, 0)

SpecLedger == Init /\ [][NextLedger]_vars

(* The same requests when a store call may fail (an I/O error of SQLite) *)

NextFaults ==
    \/ CreateUser("alice", "Lakers")
    \/ \E req \in QuizRequests({"alice"}, {"Lakers"}, {"Easy"}), fail_at \in 0..4 :
            SubmitQuiz(req, fail_at)
    \/ \E req \in PredictionRequests(UserIds), t1_wins \in BOOLEAN, fail_at \in 0..3 :
            SubmitPrediction(req, t1_wins, fail_at)

SpecFaults == Init /\ [][NextFaults]_vars

----------------------------------------------------------------------------
(* What the handlers report of a user and of a pair *)

\* the total_points the API reports for a user id: the row's, and 0 without a row
\* (submit_quiz, get_team_total_points)
TotalPoints(d, user_id) ==
    LET user == get_user(d, user_id)
    IN  IF user # << >> THEN user[1].total_points ELSE 0

\* the current_level of a pair that has a progress row
CurrentLevel(d, user_id, team) == get_quiz_progress(d, user_id, team)[1].current_level

----------------------------------------------------------------------------
(* Claims: the point ledger *)

\* C1: for every user id, the stored total_points is the sum of the points_earned
\* of the user's quiz submissions plus that of the user's prediction submissions
C1_LedgerBalanced ==
    \A u \in UserIds :
        TotalPoints(db, u) = ledger.quiz[u] + ledger.prediction[u]

\* C3: a quiz submission identical to the one accepted just before it (same user,
\* team, level, questions and answers) credits nothing more to total_points
C3_ResubmissionNotCredited ==
    [][ ( /\ request.op = "submit_quiz"
          /\ response.status = 200
          /\ response'.op = "submit_quiz"
          /\ request' = request )
        => TotalPoints(db', request.user_id) = TotalPoints(db, request.user_id) ]_vars

\* C8: a quiz submission at level L of Easy, Medium, Hard with n questions of
\* which c are correct reports points_earned 10*c and score 100*c/n, raises the
\* user's total_points by exactly 10*c and leaves current_level at the successor of L
C8_QuizSubmissionEffect ==
    [][ ( /\ response'.op = "submit_quiz"
          /\ response'.status = 200
          /\ request'.level \in Levels )
        => LET u == request'.user_id
               c == response'.correct
               n == Len(request'.questions)
           IN  /\ response'.points_earned = 10 * c
               /\ TotalPoints(db', u) = TotalPoints(db, u) + 10 * c
               /\ n > 0 => response'.score.num * n = 100 * c * response'.score.den
               /\ CurrentLevel(db', u, request'.team) =
                    (CASE request'.level = "Easy" -> "Medium"
                       [] request'.level = "Medium" -> "Hard"
                       [] request'.level = "Hard" -> "Hard") ]_vars

\* C9: once a prediction submission has been served, either its row is in
\* predictions and the user's total_points has grown by the row's points_earned,
\* or neither the row nor a change of balance is visible
C9_PredictionAllOrNothing ==
    [][ response'.op = "submit_prediction"
        => LET u == request'.user_id
               n == Len(db.predictions)
           IN  \/ /\ Len(db'.predictions) = n + 1
                  /\ SubSeq(db'.predictions, 1, n) = db.predictions
                  /\ db'.predictions[n + 1].user_id = u
                  /\ TotalPoints(db', u) =
                        TotalPoints(db, u) + db'.predictions[n + 1].points_earned
               \/ /\ db'.predictions = db.predictions
                  /\ db'.users = db.users ]_vars

\* C10: a quiz submission that fails at a store call leaves total_points,
\* completed_levels, quiz_progress and quiz_history as they were before it
C10_FailedSubmissionInvisible ==
    [][ ( /\ response'.op = "submit_quiz"
          /\ response'.status = 500 )
        => /\ db'.users = db.users
           /\ db'.completed_levels = db.completed_levels
           /\ db'.quiz_progress = db.quiz_progress
           /\ db'.quiz_history = db.quiz_history ]_vars

----------------------------------------------------------------------------
(* Quiz progress of one user: every request that reads or writes quiz_progress *)

\* (current_question_index, level_score, total_correct) as a client reports them
Snapshots == {<<0, 0, 0>>, <<1, 10, 1>>}

NextProgress ==
    \/ \E t \in Teams : InitQuizProgress("alice", t)
    \/ \E t \in Teams : GetProgress("alice", t)
    \/ \E l \in {"1", "3"}, sn \in Snapshots : UpdateProgress("alice", "Lakers", l, sn)
    \/ \E l \in Levels : MarkLevelComplete("alice", "Lakers", l, Ratio(50, 1))
    \/ \E l \in Levels, c \in BOOLEAN : LevelChoice("alice", "Lakers", l, c)
    \/ \E req \in QuizRequests({"alice"}, {"Lakers"}, {"Easy"}) :
            Len(req.questions) <= 1 /\ SubmitQuiz(req, 0)

SpecProgress == Init /\ [][NextProgress]_vars

\* the place of a stored level in the progression; an integer level n counts as
\* the n-th level, any other value has no place
LevelRank(level) ==
    CASE level \in {"Easy", "1"} -> 1
      [] level \in {"Medium", "2"} -> 2
      [] level \in {"Hard", "3"} -> 3
      [] OTHER -> 0

\* C2: whenever the current_level of a pair changes, it moves to the next level
\* of the progression: never backward, never over a level
C2_LevelMovesOneStepForward ==
    [][ \A k \in Pairs :
            ( /\ db.quiz_progress[k] # << >>
              /\ db'.quiz_progress[k] # << >>
              /\ db'.quiz_progress[k][1].current_level # db.quiz_progress[k][1].current_level )
            => LET before == LevelRank(db.quiz_progress[k][1].current_level)
                   after == LevelRank(db'.quiz_progress[k][1].current_level)
               IN  /\ before # 0
                   /\ after # 0
                   /\ after = before \/ after = before + 1 ]_vars

\* C5: initialize-progress on a pair that has a progress row answers success and
\* leaves that one row, with its four fields, as it was
C5_InitOnExistingRowChangesNothing ==
    [][ ( /\ response'.op = "init_quiz_progress"
          /\ db.quiz_progress[<<request'.user_id, request'.team>>] # << >> )
        => LET k == <<request'.user_id, request'.team>>
           IN  /\ response'.status = 200
               /\ response'.success
               /\ Len(db'.quiz_progress[k]) = 1
               /\ db'.quiz_progress[k] = db.quiz_progress[k] ]_vars

\* C5 witness: an initialize-progress request has just been answered for a pair
\* whose row carries fields that an earlier update wrote
C5_Witness ==
    /\ response.op = "init_quiz_progress"
    /\ response.status = 200
    /\ LET rows == db.quiz_progress[<<request.user_id, request.team>>]
       IN  /\ Len(rows) = 1
           /\ rows[1].current_level = "3"
           /\ rows[1].total_correct = 1

----------------------------------------------------------------------------
(* The question pool of one user: asked questions are recorded and reset, *)
(* quizzes are generated                                                   *)

NextQuestions ==
    \/ \E q \in {"LE1", "LE2", "LM1"} : RecordAskedQuestion("alice", "Lakers", q)
    \/ RecordAskedQuestion("alice", "Celtics", "CE1")
    \/ RecordAskedQuestion("bob", "Lakers", "LE1")
    \/ \E t \in Teams : ResetQuestionPool("alice", t)
    \/ \E t \in Teams, l \in {"easy", "Easy", "Medium", "HARD", "Expert"} :
            GenerateQuiz("alice", t, l)
    \/ \E t \in Teams : GetProgress("alice", t)

SpecQuestions == Init /\ [][NextQuestions]_vars

\* C7: a generated quiz holds no question whose id is recorded in
\* asked_questions for the user and team of the request
C7_AskedQuestionNotSelected ==
    [][ (response'.op = "generate_quiz" /\ response'.status = 200)
        => \A i \in DOMAIN response'.questions :
              \A j \in DOMAIN get_asked_questions(db, request'.user_id, request'.team) :
                  get_asked_questions(db, request'.user_id, request'.team)[j]
                      # response'.questions[i] ]_vars

----------------------------------------------------------------------------
(* Two requests served at the same time.  Every Database method opens its  *)
(* own connection and commits before it returns, and SQLite lets one       *)
(* writer in at a time while the others wait, so a method is one atomic    *)
(* step and the methods of the two requests interleave in any order.       *)

ConcurrentRequests ==
    {req \in QuizRequests({"alice"}, {"Lakers"}, {"Easy"}) : Len(req.questions) = 1}
    \cup {req \in PredictionRequests({"alice"}) :
                req.sport = "nba" /\ req.user_prediction = "Lakers"}
    \cup {[op |-> "init_quiz_progress", user_id |-> "alice", team |-> "Lakers"],
          [op |-> "generate_quiz", user_id |-> "alice", team |-> "Lakers",
           level |-> "Easy"]}

AllIdle == \A p \in Procs : pc[p] = "idle"
AllDone == \A p \in Procs : pc[p] = "done"
InFlight(p) == pc[p] \notin {"idle", "done"}

\* the first store call of each handler
FirstCall(req) ==
    CASE req.op = "submit_quiz" -> "get_quiz_progress"
      [] req.op = "generate_quiz" -> "get_quiz_progress"
      [] req.op = "init_quiz_progress" -> "create_quiz_progress"
      [] req.op = "submit_prediction" -> "save_prediction"
      [] req.op = "add_badge" -> "select_badges"

\* the call that follows the progress check and the creation of the row
AfterProgress(req) ==
    IF req.op = "submit_quiz" THEN "add_quiz_points" ELSE "random_sample"

\* a request arrives; awarded is the amount its award statement has added
Arrive(p, req) ==
    /\ pc[p] = "idle"
    /\ pc' = [pc EXCEPT ![p] = FirstCall(req)]
    /\ local' = [local EXCEPT ![p] =
                    [request |-> req, progress |-> << >>, awarded |-> 0,
                     overlapped |-> \E q \in Procs \ {p} : InFlight(q),
                     response |-> NoResponse]]
    /\ db0' = IF AllIdle THEN db ELSE db0
    /\ UNCHANGED <<db, request, response, ledger, faults>>

Goto(p, label, loc) ==
    /\ pc' = [pc EXCEPT ![p] = label]
    /\ local' = [local EXCEPT ![p] = loc]
    /\ UNCHANGED <<request, response, ledger, faults, db0>>

\* progress = db.get_quiz_progress(...) of submit_quiz and generate_quiz
CallGetQuizProgress(p) ==
    /\ pc[p] = "get_quiz_progress"
    /\ LET req == local[p].request
           progress == get_quiz_progress(db, req.user_id, req.team)
       IN  Goto(p, IF progress = << >> THEN "create_quiz_progress" ELSE AfterProgress(req),
                [local[p] EXCEPT !.progress = progress])
    /\ UNCHANGED db

\* db.create_quiz_progress(...) of init_quiz_progress, submit_quiz, generate_quiz
CallCreateQuizProgress(p) ==
    /\ pc[p] = "create_quiz_progress"
    /\ LET req == local[p].request
           result == create_quiz_progress(db, req.user_id, req.team)
       IN  /\ db' = result.db
           /\ IF result.raised
              THEN Goto(p, "done", [local[p] EXCEPT !.response = Error500(req.op)])
              ELSE IF req.op = "init_quiz_progress"
              THEN Goto(p, "done",
                        [local[p] EXCEPT !.response =
                            [op |-> "init_quiz_progress", status |-> 200,
                             success |-> TRUE]])
              ELSE Goto(p, AfterProgress(req), local[p])

\* db.add_quiz_points(request.user_id, points_earned) of submit_quiz
CallAddQuizPoints(p) ==
    /\ pc[p] = "add_quiz_points"
    /\ LET req == local[p].request
           points_earned == CorrectCount(QuizResults(req.questions, req.answers))
                                * points_per_question
       IN  /\ db' = add_quiz_points(db, req.user_id, points_earned)
           /\ Goto(p, "complete_level", [local[p] EXCEPT !.awarded = points_earned])

\* db.complete_level(...) of submit_quiz
CallCompleteLevel(p) ==
    /\ pc[p] = "complete_level"
    /\ LET req == local[p].request
           correct_count == CorrectCount(QuizResults(req.questions, req.answers))
       IN  db' = complete_level(db, req.user_id, req.team, req.level,
                                ScorePercentage(correct_count, Len(req.questions)))
    /\ Goto(p, "update_quiz_progress", local[p])

\* db.update_quiz_progress(..., next_level, 0, 0, 0) of submit_quiz
CallUpdateQuizProgress(p) ==
    /\ pc[p] = "update_quiz_progress"
    /\ LET req == local[p].request
       IN  db' = update_quiz_progress(db, req.user_id, req.team,
                                      NextLevel(req.level), 0, 0, 0)
    /\ Goto(p, "add_quiz_attempt", local[p])

\* db.add_quiz_attempt(...) of submit_quiz
CallAddQuizAttempt(p) ==
    /\ pc[p] = "add_quiz_attempt"
    /\ LET req == local[p].request
           correct_count == CorrectCount(QuizResults(req.questions, req.answers))
       IN  db' = add_quiz_attempt(db, req.user_id, req.team, "level_" \o req.level,
                                  ScorePercentage(correct_count, Len(req.questions)))
    /\ Goto(p, "get_user", local[p])

\* user = db.get_user(request.user_id) and the response of submit_quiz
CallGetUser(p) ==
    /\ pc[p] = "get_user"
    /\ LET req == local[p].request
           correct_count == CorrectCount(QuizResults(req.questions, req.answers))
           user == get_user(db, req.user_id)
       IN  Goto(p, "done",
                [local[p] EXCEPT !.response =
                    [op |-> "submit_quiz", status |-> 200,
                     score |-> ScorePercentage(correct_count, Len(req.questions)),
                     correct |-> correct_count,
                     total |-> Len(req.questions),
                     points_earned |-> correct_count * points_per_question,
                     level |-> req.level,
                     total_points |-> IF user # << >> THEN user[1].total_points ELSE 0]])
    /\ UNCHANGED db

\* random.sample and the response of generate_quiz
CallRandomSample(p) ==
    /\ pc[p] = "random_sample"
    /\ LET req == local[p].request
       IN  \E selected \in Selections(req.team, req.level) :
              Goto(p, "done",
                   [local[p] EXCEPT !.response =
                       generate_quiz_response(req.team, Capitalize(req.level), selected)])
    /\ UNCHANGED db

\* submit_prediction: the engine, then db.save_prediction(...) in one transaction
CallSavePrediction(p) ==
    /\ pc[p] = "save_prediction"
    /\ \E t1_wins \in BOOLEAN :
          LET r == submit_prediction(db, local[p].request, t1_wins, 0)
          IN  /\ db' = r.db
              /\ Goto(p, "done", [local[p] EXCEPT !.awarded = r.response.points_earned,
                                                  !.response = r.response])

NextConcurrent ==
    \/ AllIdle /\ CreateUser("alice", "Lakers")
    \/ AllIdle /\ \E req \in PredictionRequests({"alice"}), t1_wins \in BOOLEAN :
                      req.sport = "nba" /\ SubmitPrediction(req, t1_wins, 0)
    \/ \E p \in Procs, req \in ConcurrentRequests : Arrive(p, req)
    \/ \E p \in Procs : CallGetQuizProgress(p)
    \/ \E p \in Procs : CallCreateQuizProgress(p)
    \/ \E p \in Procs : CallAddQuizPoints(p)
    \/ \E p \in Procs : CallCompleteLevel(p)
    \/ \E p \in Procs : CallUpdateQuizProgress(p)
    \/ \E p \in Procs : CallAddQuizAttempt(p)
    \/ \E p \in Procs : CallGetUser(p)
    \/ \E p \in Procs : CallRandomSample(p)
    \/ \E p \in Procs : CallSavePrediction(p)

SpecConcurrent == Init /\ [][NextConcurrent]_vars

\* the amount the award statement of request p has added to the balance of a user
Awarded(p, user_id) ==
    IF pc[p] # "idle" /\ local[p].request.user_id = user_id THEN local[p].awarded ELSE 0

\* C4: for a user who had a balance when the requests arrived, the balance is
\* that balance plus the amount of every award made since, at every point of
\* every interleaving, and so when both requests are done
C4_NoLostIncrement ==
    \A u \in UserIds :
        (~AllIdle /\ db0.users[u] # << >>)
        => TotalPoints(db, u) = TotalPoints(db0, u) + Awarded("r1", u) + Awarded("r2", u)

\* C4 witness: two overlapping requests have each awarded points to a user who
\* arrived with a balance, and both are done
C4_Witness ==
    /\ AllDone
    /\ local["r2"].overlapped
    /\ TotalPoints(db0, "alice") > 0
    /\ local["r1"].request.op = "submit_quiz" /\ Awarded("r1", "alice") > 0
    /\ local["r2"].request.op = "submit_prediction" /\ Awarded("r2", "alice") > 0

\* the requests that initialize the progress of a pair
InitializesProgress(p, k) ==
    /\ pc[p] # "idle"
    /\ local[p].request.op \in {"init_quiz_progress", "generate_quiz", "submit_quiz"}
    /\ <<local[p].request.user_id, local[p].request.team>> = k

\* C6: when two requests that initialize the progress of the same pair are both
\* done, the pair has exactly one quiz_progress row and both were answered 200
C6_ConcurrentInitOneRow ==
    \A k \in Pairs :
        (AllDone /\ \A p \in Procs : InitializesProgress(p, k))
        => /\ Len(db.quiz_progress[k]) = 1
           /\ \A p \in Procs : local[p].response.status = 200

\* C6 witness: a submission and a generation for a pair without a row both saw
\* no row in their check, both went on to create it, and both are done
C6_Witness ==
    /\ AllDone
    /\ local["r1"].request.op = "submit_quiz"
    /\ local["r2"].request.op = "generate_quiz"
    /\ local["r2"].overlapped
    /\ db0.quiz_progress[<<"alice", "Lakers">>] = << >>
    /\ local["r1"].progress = << >> /\ local["r2"].progress = << >>
    /\ Len(db.quiz_progress[<<"alice", "Lakers">>]) = 1

----------------------------------------------------------------------------
(* memory/database.py: badges *)

Badges == {"quiz_master", "perfect_quiz", "prediction_pro"}

Contains(seq, x) == \E i \in DOMAIN seq : seq[i] = x

\* SELECT badges FROM users WHERE user_id = ?; json.loads of the row, << >> for None
select_badges(d, user_id) ==
    IF d.users[user_id] = << >> THEN << >> ELSE <<d.users[user_id][1].badges>>

\* UPDATE users SET badges = ? WHERE user_id = ?
update_badges(d, user_id, badges) ==
    [d EXCEPT !.users[user_id] = [i \in DOMAIN @ |-> [@[i] EXCEPT !.badges = badges]]]

\* the list add_badge writes back: every grant appends, present or not
add_badge_always_append(d, user_id, badge) ==
    LET row == select_badges(d, user_id)
    IN  IF row = << >> THEN d ELSE update_badges(d, user_id, Append(row[1], badge))

\* add_badge run on its own: the SELECT, the membership test, the UPDATE
add_badge(d, user_id, badge) ==
    LET row == select_badges(d, user_id)
    IN  IF row # << >> /\ ~Contains(row[1], badge)
        THEN update_badges(d, user_id, Append(row[1], badge))
        ELSE d

\* the badge list of a user, << >> without a row
BadgesOf(d, user_id) ==
    IF d.users[user_id] = << >> THEN << >> ELSE d.users[user_id][1].badges

\* Database.add_badge
AddBadge(user_id, badge) ==
    /\ db' = add_badge(db, user_id, badge)
    /\ request' = [op |-> "add_badge", user_id |-> user_id, badge |-> badge]
    /\ response' = NoResponse
    /\ UNCHANGED <<ledger, faults, concurrent_vars>>

NextBadges ==
    \/ \E u \in UserIds : CreateUser(u, "Lakers")
    \/ \E u \in UserIds, b \in Badges : AddBadge(u, b)

SpecBadges == Init /\ [][NextBadges]_vars

\* C12: granting a badge a user already holds leaves the user's badge list as it
\* was, and after any sequence of grants no badge id is in a list twice
C12_GrantIdempotent ==
    [][ /\ \A u \in UserIds : \A i, j \in DOMAIN BadgesOf(db', u) :
                BadgesOf(db', u)[i] = BadgesOf(db', u)[j] => i = j
        /\ ( /\ request'.op = "add_badge"
             /\ Contains(BadgesOf(db, request'.user_id), request'.badge) )
           => db' = db ]_vars

\* C12 witness: a badge has just been granted to a user who holds it together
\* with another badge, and is in the list once
C12_Witness ==
    /\ request.op = "add_badge"
    /\ BadgesOf(db, request.user_id) = <<request.badge, "perfect_quiz">>
    /\ request.badge = "quiz_master"

----------------------------------------------------------------------------
(* Two badge grants at the same time.  add_badge reads the list with a      *)
(* SELECT, which takes no write lock, and writes the extended list back     *)
(* with an UPDATE: the two statements of one grant are two steps, and the   *)
(* statements of the other grant may run between them.                      *)

BadgeRequests ==
    {[op |-> "add_badge", user_id |-> "alice", badge |-> b] : b \in Badges}

\* cursor.execute('SELECT badges ...'); row = cursor.fetchone()
CallSelectBadges(p) ==
    /\ pc[p] = "select_badges"
    /\ LET req == local[p].request
           row == select_badges(db, req.user_id)
       IN  Goto(p, IF row # << >> /\ ~Contains(row[1], req.badge)
                   THEN "update_badges" ELSE "done",
                [local[p] EXCEPT !.progress = row])
    /\ UNCHANGED db

\* badges.append(badge); cursor.execute('UPDATE users SET badges = ? ...'); commit
CallUpdateBadges(p) ==
    /\ pc[p] = "update_badges"
    /\ LET req == local[p].request
       IN  db' = update_badges(db, req.user_id, Append(local[p].progress[1], req.badge))
    /\ Goto(p, "done", local[p])

NextBadgeRace ==
    \/ AllIdle /\ CreateUser("alice", "Lakers")
    \/ AllIdle /\ \E b \in Badges : AddBadge("alice", b)
    \/ \E p \in Procs, req \in BadgeRequests : Arrive(p, req)
    \/ \E p \in Procs : CallSelectBadges(p)
    \/ \E p \in Procs : CallUpdateBadges(p)

SpecBadgeRace == Init /\ [][NextBadgeRace]_vars

\* C11: a badge in a user's list stays in it in every later state, and when two
\* grants of different badges to one user are both done the list has both badges
C11_BadgesNeverLost ==
    [][ /\ \A u \in UserIds : \A b \in Badges :
                Contains(BadgesOf(db, u), b) => Contains(BadgesOf(db', u), b)
        /\ ( /\ \A p \in Procs : pc'[p] = "done"
             /\ db0.users["alice"] # << >> )
           => \A p \in Procs : Contains(BadgesOf(db', "alice"), local'[p].request.badge)
      ]_vars

----------------------------------------------------------------------------
(* tools/reward_tracker.py: FanRewardTrackerTool, and the quiz history it reads *)

MaxHistory == 10        \* rows of quiz_history where the tenth attempt matters

QuizMasterAttempts == 10

Raised(d, e) == [db |-> d, ret |-> e, raised |-> TRUE]

\* int(difficulty_str.replace("level_", "")): << >> when int() raises ValueError
LevelOfDifficulty(difficulty) ==
    CASE difficulty = "level_1" -> <<1>>
      [] difficulty = "level_2" -> <<2>>
      [] difficulty = "level_3" -> <<3>>
      [] OTHER -> << >>

\* get_user_quiz_history: the rows of the user, each with its level parsed
get_user_quiz_history(d, user_id) ==
    LET rows == SelectSeq(d.quiz_history, LAMBDA row : row.user_id = user_id)
    IN  IF \E i \in DOMAIN rows : LevelOfDifficulty(rows[i].difficulty) = << >>
        THEN Raised(d, "ValueError")
        ELSE Returned(d, [i \in DOMAIN rows |->
                            [team |-> rows[i].team,
                             level |-> LevelOfDifficulty(rows[i].difficulty)[1],
                             score |-> rows[i].score]])

\* RewardConfig.QUIZ_POINTS.get(difficulty, 25)
QUIZ_POINTS(difficulty) ==
    CASE difficulty = "easy" -> 10
      [] difficulty = "medium" -> 25
      [] difficulty = "hard" -> 50
      [] OTHER -> 25

\* FanRewardTrackerTool.add_quiz_points; score_percentage is a whole percentage
FanRewardTrackerTool_add_quiz_points(d, user_id, difficulty, score_percentage) ==
    LET base_points == QUIZ_POINTS(difficulty)
        perfect == score_percentage = 100
        points == IF perfect THEN base_points * 2
                  ELSE (base_points * score_percentage) \div 100
        d1 == IF perfect THEN add_badge(d, user_id, "perfect_quiz") ELSE d
        d2 == update_user_points(d1, user_id, points)
        history == get_user_quiz_history(d2, user_id)
        d3 == IF ~history.raised /\ Len(history.ret) >= QuizMasterAttempts
              THEN add_badge(d2, user_id, "quiz_master") ELSE d2
        user == get_user(d3, user_id)
    IN  IF history.raised THEN Raised(d2, "ValueError")
        ELSE IF user = << >> THEN Raised(d3, "TypeError")
        ELSE Returned(d3, [points_awarded |-> points,
                           total_user_points |-> user[1].total_points])

\* a call of FanRewardTrackerTool.add_quiz_points
RewardQuizPoints(user_id, difficulty, score_percentage) ==
    LET r == FanRewardTrackerTool_add_quiz_points(db, user_id, difficulty, score_percentage)
    IN  /\ db' = r.db
        /\ request' = [op |-> "reward_quiz_points", user_id |-> user_id,
                       difficulty |-> difficulty, score_percentage |-> score_percentage]
        /\ response' = [op |-> "reward_quiz_points",
                        status |-> IF r.raised THEN 500 ELSE 200, ret |-> r.ret]
        /\ UNCHANGED <<ledger, faults, concurrent_vars>>

\* the quiz attempts of a user
AttemptsOf(d, user_id) ==
    Len(SelectSeq(d.quiz_history, LAMBDA row : row.user_id = user_id))

\* one user takes quiz after quiz; the level is sent by name or as a numeral
NextQuizMaster ==
    \/ CreateUser("alice", "Lakers")
    \/ \E req \in QuizRequests({"alice"}, {"Lakers"}, {"Easy", "1"}) :
            req.questions = << >> /\ SubmitQuizWithin(req, 0, MaxHistory)
    \/ RewardQuizPoints("alice", "easy", 0)

SpecQuizMaster == Init /\ [][NextQuizMaster]_vars

\* C13: a user's badge list holds "quiz_master" once the user has submitted ten
\* quiz attempts, and does not hold it while the user has submitted fewer
C13_QuizMasterAtTenth ==
    \A u \in UserIds :
        (db.users[u] # << >>)
        => (Contains(BadgesOf(db, u), "quiz_master")
                <=> AttemptsOf(db, u) >= QuizMasterAttempts)

----------------------------------------------------------------------------
(* Claims: the reset of the question pool *)

\* C14: a reset for a user and team removes every asked_questions row of that
\* pair, and leaves the rows of every other pair and all other tables as they were
C14_ResetOnlyThatPair ==
    [][ (request'.op = "reset_question_pool")
        => LET k == <<request'.user_id, request'.team>>
           IN  /\ response'.status = 200
               /\ db'.asked_questions[k] = << >>
               /\ \A other \in Pairs \ {k} :
                      db'.asked_questions[other] = db.asked_questions[other]
               /\ db' = [db EXCEPT !.asked_questions = db'.asked_questions] ]_vars

\* C14 witness: the pool of one pair has just been reset while another team of
\* the same user and the same team of another user have questions recorded
C14_Witness ==
    /\ request.op = "reset_question_pool"
    /\ response.status = 200
    /\ <<request.user_id, request.team>> = <<"alice", "Lakers">>
    /\ db.asked_questions[<<"alice", "Lakers">>] = << >>
    /\ db.asked_questions[<<"alice", "Celtics">>] = <<"CE1">>
    /\ db.asked_questions[<<"bob", "Lakers">>] = <<"LE1">>
    /\ db.quiz_progress[<<"alice", "Lakers">>] # << >>

----------------------------------------------------------------------------
(* The leaderboard *)

\* the ids of the users that have a row
UsersWithRow(d) == {u \in UserIds : d.users[u] # << >>}

\* ORDER BY total_points DESC: every order of the rows with non-increasing
\* points; SQL leaves the order of rows with equal points open
OrderedByPoints(d) ==
    LET n == Cardinality(UsersWithRow(d))
    IN  {ord \in [1..n -> UsersWithRow(d)] :
            /\ \A i, j \in 1..n : ord[i] = ord[j] => i = j
            /\ \A i, j \in 1..n :
                  i < j => d.users[ord[i]][1].total_points >= d.users[ord[j]][1].total_points}

\* LIMIT ?: a negative limit is no limit
Limit(rows, limit) ==
    IF limit < 0 \/ limit >= Len(rows) THEN rows ELSE SubSeq(rows, 1, limit)

\* the ranks of a competition: users with equal points share a rank
get_leaderboard_shared_rank(d, limit, ordered) ==
    LET rows == Limit(ordered, limit)
    IN  [idx \in DOMAIN rows |->
            [rank |-> 1 + Cardinality({u \in UsersWithRow(d) :
                            d.users[u][1].total_points > d.users[rows[idx]][1].total_points}),
             user_id |-> rows[idx],
             points |-> d.users[rows[idx]][1].total_points,
             team |-> d.users[rows[idx]][1].favorite_team]]

\* Database.get_leaderboard; ordered is the order the SELECT returned the rows in
get_leaderboard(d, limit, ordered) ==
    LET rows == Limit(ordered, limit)
    IN  [idx \in DOMAIN rows |->
            [rank |-> idx,
             user_id |-> rows[idx],
             points |-> d.users[rows[idx]][1].total_points,
             team |-> d.users[rows[idx]][1].favorite_team]]

\* GET /api/leaderboard
GetLeaderboard(limit) ==
    \E ordered \in OrderedByPoints(db) :
        /\ request' = [op |-> "get_leaderboard", limit |-> limit]
        /\ response' = [op |-> "get_leaderboard", status |-> 200,
                        leaderboard |-> get_leaderboard(db, limit, ordered),
                        total_users |-> Len(get_leaderboard(db, 1000, ordered))]
        /\ UNCHANGED <<db, ledger, faults, concurrent_vars>>

NextLeaderboard ==
    \/ \E u \in UserIds, t \in Teams : CreateUser(u, t)
    \/ \E req \in QuizRequests(UserIds, {"Lakers"}, {"Easy"}) :
            /\ req.questions = <<KnownQuestion>> /\ req.answers = <<" kobe ">>
            /\ SubmitQuiz(req, 0)
    \/ \E req \in PredictionRequests(UserIds), t1_wins \in BOOLEAN :
            /\ req.sport = "nba" /\ req.user_prediction = "Lakers"
            /\ SubmitPrediction(req, t1_wins, 0)
    \/ \E limit \in -1..3 : GetLeaderboard(limit)

SpecLeaderboard == Init /\ [][NextLeaderboard]_vars

----------------------------------------------------------------------------
(* Claims: completed levels and the level of a pair *)

\* the completed_levels rows of a user, team and level
CompletedRows(d, user_id, team, level) ==
    {r \in d.completed_levels : r.user_id = user_id /\ r.team = team /\ r.level = level}

\* C16: a (user, team, level) never has two completed_levels rows; a completion
\* leaves the row of its level with the score of that completion and the rows
\* of other levels as they were, and no other request touches the table
C16_OneRowLatestScore ==
    [][ /\ \A r1, r2 \in db'.completed_levels :
              (r1.user_id = r2.user_id /\ r1.team = r2.team /\ r1.level = r2.level)
              => r1 = r2
        /\ IF request'.op = "mark_level_complete"
              \/ (request'.op = "submit_quiz" /\ response'.status = 200)
           THEN LET score == IF request'.op = "submit_quiz"
                             THEN response'.score ELSE request'.score
                    mine == CompletedRows(db', request'.user_id, request'.team,
                                          request'.level)
                IN  /\ mine = {[user_id |-> request'.user_id, team |-> request'.team,
                                level |-> request'.level, score |-> score]}
                    /\ db'.completed_levels \ mine =
                          db.completed_levels
                              \ CompletedRows(db, request'.user_id, request'.team,
                                              request'.level)
           ELSE db'.completed_levels = db.completed_levels ]_vars

\* C16 witness: the second submission of the Easy quiz scored 100 after a first
\* one that scored 0, and the row of the level carries 100
C16_Witness ==
    /\ request.op = "submit_quiz" /\ response.status = 200
    /\ Len(db.quiz_history) = 2
    /\ db.quiz_history[1].difficulty = "level_Easy"
    /\ db.quiz_history[1].score = Ratio(0, 1)
    /\ response.score = Ratio(100, 1)
    /\ CompletedRows(db, "alice", "Lakers", "Easy") =
          {[user_id |-> "alice", team |-> "Lakers", level |-> "Easy",
            score |-> Ratio(100, 1)]}

\* C17: the complete-level request leaves the quiz_progress row of its pair, the
\* current_level with the other fields, as it was
C17_CompleteLevelKeepsProgress ==
    [][ (request'.op = "mark_level_complete")
        => db'.quiz_progress[<<request'.user_id, request'.team>>]
              = db.quiz_progress[<<request'.user_id, request'.team>>] ]_vars

\* C18: the progress update sent while questions are answered leaves the
\* current_level of its pair as it was
C18_UpdateKeepsLevel ==
    [][ ( /\ request'.op = "update_progress"
          /\ db.quiz_progress[<<request'.user_id, request'.team>>] # << >> )
        => db'.quiz_progress[<<request'.user_id, request'.team>>][1].current_level
              = db.quiz_progress[<<request'.user_id, request'.team>>][1].current_level
      ]_vars

----------------------------------------------------------------------------
(* PredictionEngine.evaluate_prediction on its own: a guess, an outcome and a *)
(* sport are given, the evaluation is the response                            *)

EvaluationInputs ==
    { [op |-> "evaluate_prediction", user_prediction |-> g, system_outcome |-> o,
       sport |-> sp] :
        g \in {"Lakers", "Celtics", "Draw", "draw", ""},
        o \in {"Lakers", "Celtics", "Draw"},
        sp \in {"soccer", "Soccer", "nba", "nfl"} }

InitEvaluate ==
    /\ db = EmptyDb
    /\ request \in EvaluationInputs
    /\ response = NoResponse
    /\ ledger = ZeroLedger
    /\ faults = 0
    /\ pc = [p \in Procs |-> "idle"]
    /\ local = [p \in Procs |-> NoLocal]
    /\ db0 = EmptyDb

EvaluatePrediction ==
    /\ response = NoResponse
    /\ LET r == evaluate_prediction(request.user_prediction, request.system_outcome,
                                    request.sport)
       IN  response' = [op |-> "evaluate_prediction", status |-> 200,
                        is_correct |-> r.is_correct, points |-> r.points]
    /\ UNCHANGED <<db, request, ledger, faults, concurrent_vars>>

NextEvaluate == EvaluatePrediction

SpecEvaluate == InitEvaluate /\ [][NextEvaluate]_vars

\* C19: for the sport "soccer" a "Draw" guess is correct exactly when the outcome
\* is the string "Draw" and then earns 50; any other guess is correct exactly
\* when it is the same string as the outcome and then earns 30; an incorrect
\* guess earns 0
C19_SoccerEvaluation ==
    (response.op = "evaluate_prediction" /\ request.sport = "soccer")
    => /\ response.is_correct <=>
             IF request.user_prediction = "Draw"
             THEN request.system_outcome = "Draw"
             ELSE request.user_prediction = request.system_outcome
       /\ response.points =
             IF ~response.is_correct THEN 0
             ELSE IF request.user_prediction = "Draw" THEN 50 ELSE 30

\* C19 witness: a soccer "Draw" guess on a "Draw" outcome was evaluated as
\* correct for 50 points
C19_Witness ==
    /\ response.op = "evaluate_prediction"
    /\ request.sport = "soccer"
    /\ request.user_prediction = "Draw" /\ request.system_outcome = "Draw"
    /\ response.is_correct /\ response.points = 50

----------------------------------------------------------------------------
(* FanRewardTrackerTool.add_prediction_points: the award of the reward tool   *)
(* for a prediction                                                           *)

\* most points a user holds when an award is made
MaxPoints == 1000

\* RewardConfig
PREDICTION_CORRECT == 100
PREDICTION_CLOSE == 25
FIRST_PREDICTION == 10
\* the total from which "points_collector" is granted
PointsCollectorPoints == 1000

FanRewardTrackerTool_add_prediction_points(d, user_id, is_correct, is_close) ==
    LET points == IF is_correct THEN PREDICTION_CORRECT
                  ELSE IF is_close THEN PREDICTION_CLOSE
                  ELSE FIRST_PREDICTION
        badges_earned == IF is_correct THEN <<"prediction_pro">> ELSE << >>
        d1 == update_user_points(d, user_id, points)
        d2 == IF is_correct THEN add_badge(d1, user_id, "prediction_pro") ELSE d1
        user == get_user(d2, user_id)
        collector == user # << >> /\ user[1].total_points >= PointsCollectorPoints
        d3 == IF collector THEN add_badge(d2, user_id, "points_collector") ELSE d2
    IN  IF user = << >> THEN Raised(d2, "TypeError")
        ELSE Returned(d3, [points_awarded |-> points,
                           badges_earned |-> IF collector
                                             THEN Append(badges_earned, "points_collector")
                                             ELSE badges_earned,
                           total_user_points |-> user[1].total_points + points])

\* a call of FanRewardTrackerTool.add_prediction_points
RewardPredictionPoints(user_id, is_correct, is_close) ==
    /\ TotalPoints(db, user_id) < MaxPoints
    /\ LET r == FanRewardTrackerTool_add_prediction_points(db, user_id, is_correct, is_close)
       IN  /\ db' = r.db
           /\ request' = [op |-> "reward_prediction_points", user_id |-> user_id,
                          is_correct |-> is_correct, is_close |-> is_close]
           /\ response' = [op |-> "reward_prediction_points",
                           status |-> IF r.raised THEN 500 ELSE 200, ret |-> r.ret]
    /\ UNCHANGED <<ledger, faults, concurrent_vars>>

\* the two paths that award points for a prediction: the prediction endpoint
\* and the reward tool
NextAwards ==
    \/ CreateUser("alice", "Lakers")
    \/ \E req \in PredictionRequests({"alice"}), t1_wins \in BOOLEAN :
            SubmitPrediction(req, t1_wins, 0)
    \/ \E u \in UserIds, is_correct \in BOOLEAN, is_close \in BOOLEAN :
            RewardPredictionPoints(u, is_correct, is_close)

SpecAwards == Init /\ [][NextAwards]_vars

\* C20: a prediction of a sport other than soccer earns 25 points when the guess
\* is the outcome and 0 otherwise, and no award for a prediction adds points to
\* the total of a user whose guess was incorrect
C20_IncorrectGuessEarnsNothing ==
    [][ /\ (response'.op = "submit_prediction" /\ response'.status = 200
                /\ request'.sport # "soccer")
           => response'.points_earned =
                    IF request'.user_prediction = response'.system_outcome
                    THEN 25 ELSE 0
        /\ (request'.op = "reward_prediction_points" /\ ~request'.is_correct)
           => TotalPoints(db', request'.user_id) = TotalPoints(db, request'.user_id)
      ]_vars

----------------------------------------------------------------------------
(* Claims: the balance, the user row and the stored ranges *)

\* C21: the total_points of every user row is a non-negative integer, and no
\* quiz submission or prediction submission makes the total_points of a user
\* smaller
C21_PointsNeverDecrease ==
    [][ \A u \in UserIds :
            /\ db'.users[u] # << >> => db'.users[u][1].total_points \in Nat
            /\ TotalPoints(db', u) >= TotalPoints(db, u) ]_vars

\* C21 witness: a submission that earned nothing was made by a user who holds
\* points from an earlier submission
C21_Witness ==
    /\ request.op \in {"submit_quiz", "submit_prediction"}
    /\ response.status = 200 /\ response.points_earned = 0
    /\ TotalPoints(db, request.user_id) > 0

\* C22: after a quiz submission, a prediction submission or a progress
\* initialization that succeeded, a users row of the request's user id exists
C22_InteractionCreatesUser ==
    [][ (/\ request'.op \in {"submit_quiz", "submit_prediction", "init_quiz_progress"}
         /\ response'.status = 200)
        => db'.users[request'.user_id] # << >> ]_vars

\* progress requests of one pair with levels and scores of every kind: the level
\* of a completion is any string and its score any number, the level of an
\* update is an integer
NextRanges ==
    \/ InitQuizProgress("alice", "Lakers")
    \/ GetProgress("alice", "Lakers")
    \/ \E l \in {"1", "3", "7"}, sn \in Snapshots : UpdateProgress("alice", "Lakers", l, sn)
    \/ \E l \in Levels \cup {"Expert"}, score \in {Ratio(50, 1), Ratio(150, 1)} :
            MarkLevelComplete("alice", "Lakers", l, score)

SpecRanges == Init /\ [][NextRanges]_vars

\* C23: a complete-level or progress-update request whose level is not one of
\* Easy, Medium, Hard, or whose score is not within 0..100, is answered with an
\* error and changes nothing in the store
C23_OutOfRangeRejected ==
    [][ /\ (/\ request'.op = "mark_level_complete"
            /\ \/ request'.level \notin Levels
               \/ request'.score.num > 100 * request'.score.den)
           => (response'.status # 200 /\ db' = db)
        /\ (request'.op = "update_progress" /\ request'.current_level \notin Levels)
           => (response'.status # 200 /\ db' = db) ]_vars

\* C24: the initialization of progress for a pair that has no quiz_progress row
\* stores a row whose current_level is Easy and whose current_question_index,
\* level_score and total_correct are 0
C24_FirstInitAtEasy ==
    [][ (/\ request'.op = "init_quiz_progress" /\ response'.status = 200
         /\ get_quiz_progress(db, request'.user_id, request'.team) = << >>)
        => get_quiz_progress(db', request'.user_id, request'.team)
              = <<[current_level |-> "Easy", current_question_index |-> 0,
                   level_score |-> 0, total_correct |-> 0]>> ]_vars

----------------------------------------------------------------------------
(* The resume state of a pair *)

\* the place of a stored level in ORDER BY level ASC: integers come before
\* texts and are ordered by value, texts are ordered byte by byte
LevelSortKey(level) ==
    CASE level = "1" -> 1
      [] level = "2" -> 2
      [] level = "3" -> 3
      [] level = "7" -> 7
      [] level = "Easy" -> 101
      [] level = "Expert" -> 102
      [] level = "Hard" -> 103
      [] level = "Medium" -> 104

\* SELECT level, score FROM completed_levels WHERE user_id = ? AND team = ?
\* ORDER BY level ASC
get_completed_levels(d, user_id, team) ==
    LET rows == {c \in d.completed_levels : c.user_id = user_id /\ c.team = team}
        sorted == [i \in 1..Cardinality(rows) |->
                      CHOOSE r \in rows :
                          Cardinality({x \in rows :
                              LevelSortKey(x.level) < LevelSortKey(r.level)}) = i - 1]
    IN  [i \in DOMAIN sorted |-> [level |-> sorted[i].level, score |-> sorted[i].score]]

\* SELECT current_level, total_correct FROM quiz_progress; the integer 0 stands
\* for the level of a pair without a row
get_team_stats(d, user_id, team) ==
    LET row == d.quiz_progress[<<user_id, team>>]
    IN  IF row # << >>
        THEN [highest_level_reached |-> row[1].current_level,
              total_correct_answers |-> row[1].total_correct]
        ELSE [highest_level_reached |-> "0", total_correct_answers |-> 0]

get_resume_state(d, user_id, team) ==
    LET progress == get_quiz_progress(d, user_id, team)
        completed == get_completed_levels(d, user_id, team)
        stats == get_team_stats(d, user_id, team)
    IN  [op |-> "get_resume_state", status |-> 200,
         has_progress |-> progress # << >>,
         current_progress |-> progress,
         completed_levels |-> completed,
         stats |-> stats]

\* GET /api/user/{user_id}/progress/{team}/resume
GetResumeState(user_id, team) ==
    /\ request' = [op |-> "get_resume_state", user_id |-> user_id, team |-> team]
    /\ response' = get_resume_state(db, user_id, team)
    /\ UNCHANGED <<db, ledger, faults, concurrent_vars>>

\* a quiz of one user is left and resumed: progress of two teams is written and
\* read back
NextResume ==
    \/ \E t \in Teams : InitQuizProgress("alice", t)
    \/ \E t \in Teams, l \in {"1", "2"}, sn \in Snapshots : UpdateProgress("alice", t, l, sn)
    \/ \E l \in Levels : MarkLevelComplete("alice", "Lakers", l, Ratio(50, 1))
    \/ \E t \in Teams : GetProgress("alice", t)
    \/ \E t \in Teams : GetResumeState("alice", t)

SpecResume == Init /\ [][NextResume]_vars

\* C25: a progress update of a pair that has a row stores exactly the four values
\* of the request and touches the row of no other pair; getProgress and the
\* resume state change nothing and report the four stored values, so that a read
\* after an update with no write between them returns what the update supplied
C25_ResumeRoundTrip ==
    [][ /\ (request'.op = "update_progress"
                /\ get_quiz_progress(db, request'.user_id, request'.team) # << >>)
           => /\ get_quiz_progress(db', request'.user_id, request'.team)
                    = <<[current_level |-> request'.current_level,
                         current_question_index |-> request'.snapshot[1],
                         level_score |-> request'.snapshot[2],
                         total_correct |-> request'.snapshot[3]]>>
              /\ \A pair \in Pairs :
                    pair # <<request'.user_id, request'.team>>
                    => db'.quiz_progress[pair] = db.quiz_progress[pair]
        /\ (request'.op \in {"get_progress", "get_resume_state"})
           => /\ db' = db
              /\ response'.status = 200
              /\ response'.has_progress
                    <=> get_quiz_progress(db, request'.user_id, request'.team) # << >>
        /\ (request'.op = "get_progress" /\ response'.has_progress)
           => LET row == get_quiz_progress(db, request'.user_id, request'.team)[1]
              IN  /\ response'.current_level = row.current_level
                  /\ response'.current_question_index = row.current_question_index
                  /\ response'.level_score = row.level_score
                  /\ response'.total_correct = row.total_correct
        /\ (request'.op = "get_resume_state")
           => response'.current_progress
                 = get_quiz_progress(db, request'.user_id, request'.team)
        /\ (/\ request.op = "update_progress"
            /\ get_quiz_progress(db, request.user_id, request.team) # << >>
            /\ request'.op = "get_resume_state"
            /\ request'.user_id = request.user_id /\ request'.team = request.team)
           => response'.current_progress
                 = <<[current_level |-> request.current_level,
                      current_question_index |-> request.snapshot[1],
                      level_score |-> request.snapshot[2],
                      total_correct |-> request.snapshot[3]]>>
      ]_vars

\* C25 witness: the resume state was read and reports level 2, question index 1,
\* level score 10 and total correct 1, which an update stored
C25_Witness ==
    /\ request.op = "get_resume_state"
    /\ response.has_progress
    /\ response.current_progress
          = <<[current_level |-> "2", current_question_index |-> 1,
               level_score |-> 10, total_correct |-> 1]>>

----------------------------------------------------------------------------
(* Claims: the progression choice *)

----------------------------------------------------------------------------
(* Claims: the generated quiz *)

C28_ExhaustedPoolIsAnError ==
    [][ (response'.op = "generate_quiz" /\ response'.status = 200)
        => /\ Len(response'.questions) > 0
           /\ \E q \in TeamLevelQuestions(request'.team, Capitalize(request'.level)) :
                 \A j \in DOMAIN get_asked_questions(db, request'.user_id, request'.team) :
                     get_asked_questions(db, request'.user_id, request'.team)[j] # q.id
      ]_vars

----------------------------------------------------------------------------
(* Claims: reads of a missing row, repeated records *)

\* C29: getProgress for a pair that has no quiz_progress row succeeds, reports
\* has_progress false (Database.get_quiz_progress returns None) and changes
\* nothing in the store
C29_MissingProgressIsNoError ==
    [][ (/\ request'.op = "get_progress"
         /\ db.quiz_progress[<<request'.user_id, request'.team>>] = << >>)
        => /\ get_quiz_progress(db, request'.user_id, request'.team) = << >>
           /\ response'.status = 200
           /\ ~response'.has_progress
           /\ db' = db ]_vars

\* C29 witness: the progress of a pair without a row was read while another
\* pair of the same user has a row
C29_Witness ==
    /\ request.op = "get_progress" /\ request.team = "Celtics"
    /\ response.status = 200 /\ ~response.has_progress
    /\ db.quiz_progress[<<"alice", "Celtics">>] = << >>
    /\ db.quiz_progress[<<"alice", "Lakers">>] # << >>

\* C30: recording an asked question leaves exactly one row of that user, team
\* and question id, changes nothing else, and changes nothing at all when the id
\* was recorded already; and no step other than a reset of the pool removes an
\* id from the asked ids of a pair
C30_RecordAbsorbsDuplicate ==
    [][ /\ (request'.op = "record_asked_question")
           => LET k == <<request'.user_id, request'.team>>
                  before == db.asked_questions[k]
                  after == db'.asked_questions[k]
              IN  /\ Cardinality({i \in DOMAIN after : after[i] = request'.question_id}) = 1
                  /\ (\E i \in DOMAIN before : before[i] = request'.question_id)
                        => db' = db
                  /\ db' = [db EXCEPT !.asked_questions[k] = after]
        /\ (request'.op # "reset_question_pool")
           => \A k \in Pairs :
                 {db.asked_questions[k][i] : i \in DOMAIN db.asked_questions[k]}
                    \subseteq {db'.asked_questions[k][i] : i \in DOMAIN db'.asked_questions[k]}
      ]_vars

\* C30 witness: LE1 has just been recorded for a pair that had recorded LE1 and,
\* after it, LE2
C30_Witness ==
    /\ request.op = "record_asked_question"
    /\ request.user_id = "alice" /\ request.team = "Lakers"
    /\ request.question_id = "LE1"
    /\ db.asked_questions[<<"alice", "Lakers">>] = <<"LE1", "LE2">>

----------------------------------------------------------------------------
(* Claims: the badges of the awards *)

\* C31: a user whose total_points is 1000 or more holds the badge
\* "points_collector", whichever award brought the total there
C31_PointsCollectorAtThousand ==
    \A u \in UserIds :
        (db.users[u] # << >> /\ db.users[u][1].total_points >= PointsCollectorPoints)
        => Contains(BadgesOf(db, u), "points_collector")

\* C32: after a prediction submission that was evaluated as correct, the user of
\* the submission (who has a users row) holds the badge "prediction_pro"
C32_PredictionProOnCorrect ==
    [][ (/\ response'.op = "submit_prediction" /\ response'.status = 200
         /\ response'.is_correct
         /\ db.users[request'.user_id] # << >>)
        => Contains(BadgesOf(db', request'.user_id), "prediction_pro") ]_vars

----------------------------------------------------------------------------
(* Claims: the outcome of a prediction and the stored rows *)

C37_ReturnedTotalIsStoredTotal ==
    [][ (request'.op = "reward_prediction_points" /\ response'.status = 200)
        => response'.ret.total_user_points = TotalPoints(db', request'.user_id) ]_vars

----------------------------------------------------------------------------
(* Claims: the completed levels of the resume state *)

\* C38: the completed levels of the resume state are one entry for each
\* completed level of the pair, listed in the order of the progression: Easy
\* before Medium before Hard
C38_CompletedInProgressionOrder ==
    (response.op = "get_resume_state")
    => LET listed == response.completed_levels
       IN  /\ \A i, j \in DOMAIN listed :
                 i < j => LevelRank(listed[i].level) < LevelRank(listed[j].level)
           /\ {listed[i].level : i \in DOMAIN listed}
                 = {c.level : c \in {r \in db.completed_levels :
                        r.user_id = request.user_id /\ r.team = request.team}}
           /\ Len(listed) = Cardinality({listed[i].level : i \in DOMAIN listed})

----------------------------------------------------------------------------
(* Claims: progress writes of a pair without a row *)

\* C39: a progress update, a complete-level request or a progression choice for
\* a pair that has no quiz_progress row creates no such row; the update and the
\* choice change nothing at all, and the complete-level request only records the
\* completed_levels row, so that getProgress still reports no progress
C39_UpdateWithoutRowCreatesNone ==
    [][ (/\ request'.op \in {"update_progress", "mark_level_complete", "level_choice"}
         /\ db.quiz_progress[<<request'.user_id, request'.team>>] = << >>)
        => /\ db'.quiz_progress = db.quiz_progress
           /\ ~get_progress(db', request'.user_id, request'.team).has_progress
           /\ response'.status = 200
           /\ request'.op # "mark_level_complete" => db' = db
           /\ request'.op = "mark_level_complete"
              => /\ db' = [db EXCEPT !.completed_levels = db'.completed_levels]
                 /\ CompletedRows(db', request'.user_id, request'.team, request'.level)
                       = {[user_id |-> request'.user_id, team |-> request'.team,
                           level |-> request'.level, score |-> request'.score]}
      ]_vars

\* C39 witness: getProgress reports no progress for a pair that has a
\* completed_levels row, recorded by a complete-level request made before any
\* initialization
C39_Witness ==
    /\ request.op = "get_progress" /\ ~response.has_progress
    /\ db.quiz_progress[<<request.user_id, request.team>>] = << >>
    /\ \E c \in db.completed_levels :
          c.user_id = request.user_id /\ c.team = request.team

----------------------------------------------------------------------------
(* The agent and its tools: every request of a chat message asks the external *)
(* content generator (requests.post to the completion API) once to decide the *)
(* action and, for a chat, a quiz or a prediction, once more for the content. *)

\* chat messages taken in one run
MaxMessages == 1

\* What requests.post hands to its caller: an exception (connection error, or
\* the timeout where one is set), a status other than 200, or a 200 whose body
\* is one of
\*   not_json      no JSON document: response.json() raises
\*   no_choices    JSON without choices[0].message.content: KeyError
\*   content_null  the content is null
\*   content_text  the content is text that is no JSON
\*   decision_*    the content is the JSON of an action decision
\*   quiz_ok       the content is the JSON of a list of questions
\*   quiz_empty    the content is the JSON of an empty list of questions
\*   prediction_ok the content is the JSON of a prediction
GeneratorBodies ==
    {"not_json", "no_choices", "content_null", "content_text",
     "decision_chat", "decision_quiz", "decision_quiz_null_params",
     "decision_prediction", "decision_stats",
     "quiz_ok", "quiz_empty", "prediction_ok"}

RequestException == [raised |-> TRUE, status_code |-> 0, body |-> "none"]

\* requests.exceptions.Timeout, raised by requests.post when its timeout expires
Timeout == [raised |-> TRUE, status_code |-> 0, body |-> "timeout"]

GeneratorReplies ==
    {RequestException, [raised |-> FALSE, status_code |-> 500, body |-> "none"]}
    \cup {[raised |-> FALSE, status_code |-> 200, body |-> b] : b \in GeneratorBodies}

\* result["choices"][0]["message"]["content"] can be read
HasContent(reply) ==
    ~reply.raised /\ reply.status_code = 200 /\ reply.body \notin {"not_json", "no_choices"}

\* json.loads(content) gives a dict
ContentIsDict(reply) ==
    HasContent(reply) /\ reply.body \notin {"content_null", "content_text"}

NoParams == [null |-> FALSE, team |-> "", team1 |-> "", team2 |-> ""]

(* agent/agent.py *)

\* the messages of the model
Messages == {"hello", "quiz me", "Lakers vs Celtics", "my stats"}

\* keyword matching on the messages of the model
fallback_action_decision(message) ==
    CASE message = "quiz me" -> [action |-> "quiz", params |-> NoParams]
      [] message = "Lakers vs Celtics" -> [action |-> "prediction", params |-> NoParams]
      [] message = "my stats" -> [action |-> "stats", params |-> NoParams]
      [] OTHER -> [action |-> "chat", params |-> NoParams]

\* decide_action once requests.post has returned or raised: decision.get("action",
\* "chat") and decision.get("extracted_params", {}) of a JSON dict, the keyword
\* fallback for everything else
decide_action(reply, message) ==
    IF ~ContentIsDict(reply) \/ reply.status_code # 200
    THEN fallback_action_decision(message)
    ELSE CASE reply.body = "decision_quiz" ->
                [action |-> "quiz", params |-> [NoParams EXCEPT !.team = "Boston Celtics"]]
           [] reply.body = "decision_quiz_null_params" ->
                [action |-> "quiz", params |-> [NoParams EXCEPT !.null = TRUE]]
           [] reply.body = "decision_prediction" ->
                [action |-> "prediction",
                 params |-> [NoParams EXCEPT !.team1 = "Los Angeles Lakers",
                                             !.team2 = "Boston Celtics"]]
           [] reply.body = "decision_stats" -> [action |-> "stats", params |-> NoParams]
           [] OTHER -> [action |-> "chat", params |-> NoParams]

\* _extract_teams_from_message on the messages of the model
extract_teams_from_message(message) ==
    IF message = "Lakers vs Celtics" THEN <<"Lakers", "Celtics">> ELSE << >>

\* _handle_chat once requests.post has returned or raised: the content of a 200
\* as it is (None for a null content), the canned text otherwise
handle_chat(reply) ==
    IF ~reply.raised /\ reply.status_code = 200 /\ HasContent(reply)
    THEN IF reply.body = "content_null" THEN "None" ELSE "generated text"
    ELSE "canned text"

(* tools/quiz_generator.py *)

\* the team names of the model: two with questions of their own, one with
\* generic questions, and one that is no team of all_teams
all_teams == {"Los Angeles Lakers", "Boston Celtics", "Chicago Bulls"}

\* no name of all_teams contains "General" or is contained in it
find_closest_team(team) == "Los Angeles Lakers"

\* _generate_via_api once requests.post has returned or raised: << >> is None
generate_via_api(reply, team, num_questions) ==
    IF HasContent(reply) /\ reply.body = "quiz_ok"
    THEN <<[source |-> "api", team |-> team, count |-> num_questions]>>
    ELSE IF HasContent(reply) /\ reply.body = "quiz_empty"
    THEN <<[source |-> "api", team |-> team, count |-> 0]>>
    ELSE << >>

\* the predefined questions: every team of all_teams has five for each of the
\* levels 1 to 9 and seven for level 10
get_team_specific_questions(team, level, num_questions) ==
    [source |-> "local", team |-> team,
     count |-> Min(num_questions, IF level = 10 THEN 7 ELSE 5)]

\* generate_quiz up to the call of the generator
quiz_team(team) == IF team \in all_teams THEN team ELSE find_closest_team(team)

quiz_level(level) == IF 1 <= level /\ level <= 10 THEN level ELSE 1

\* generate_quiz from the return of _generate_via_api on
QuizGeneratorTool_generate_quiz(reply, team, level) ==
    LET t == quiz_team(team)
        l == quiz_level(level)
        num_questions == IF l = 10 THEN 7 ELSE 5
        api == generate_via_api(reply, t, num_questions)
        questions == IF api = << >> \/ api[1].count = 0
                     THEN get_team_specific_questions(t, l, num_questions)
                     ELSE api[1]
    IN  [team |-> t, level |-> l, questions |-> questions]

(* tools/prediction_engine.py *)

\* win_rate * avg_points of team_stats, times ten; 0.50 * 110 for other names
team_strength(team) ==
    CASE team = "Los Angeles Lakers" -> 714
      [] team = "Boston Celtics" -> 794
      [] OTHER -> 550

get_default_prediction(team1, team2) ==
    [team1 |-> team1, team2 |-> team2,
     predicted_winner |-> IF team_strength(team1) > team_strength(team2)
                          THEN team1 ELSE team2,
     source |-> "default"]

\* predict_outcome once requests.post has returned or raised; the winner a
\* generated prediction names is whatever the generator wrote
predict_outcome(reply, team1, team2) ==
    IF ContentIsDict(reply)
    THEN [team1 |-> team1, team2 |-> team2,
          predicted_winner |-> IF reply.body = "prediction_ok"
                               THEN "generated winner" ELSE team1,
          source |-> "api"]
    ELSE get_default_prediction(team1, team2)

(* memory/database.py: chat history and the predictions of the chat *)

\* INSERT INTO chat_history; response is NOT NULL
add_chat_message(d, user_id, message, response_text, tool_used) ==
    IF response_text = "None"
    THEN Raised(d, "IntegrityError")
    ELSE Returned([d EXCEPT !.chat_history =
                        Append(@, [user_id |-> user_id, message |-> message,
                                   response |-> response_text, tool_used |-> tool_used])],
                  "None")

\* INSERT INTO predictions: actual_outcome is left NULL, points_earned is 0
add_prediction(d, user_id, team1, team2, predicted_winner) ==
    [d EXCEPT !.predictions =
        Append(@, [user_id |-> user_id, team1 |-> team1, team2 |-> team2,
                   predicted_winner |-> predicted_winner,
                   predicted_score |-> "110-105",
                   actual_outcome |-> "NULL",
                   points_earned |-> 0])]

(* agent/agent.py: process_message, cut at its calls of the generator *)

\* process_message from the end of the handler on: the exchange is stored and
\* the result is returned; the chat endpoint turns an exception into a 500
process_message_end(d, user_id, message, response_text, tool_name, action, quiz_data) ==
    LET stored == add_chat_message(d, user_id, message, response_text, tool_name)
    IN  IF stored.raised \/ response_text = "None"
        THEN [db |-> stored.db, response |-> Error500("chat")]
        ELSE [db |-> stored.db,
              response |-> [op |-> "chat", status |-> 200, user_id |-> user_id,
                            message |-> message, response |-> response_text,
                            tool_used |-> tool_name, action |-> action,
                            quiz_data |-> quiz_data]]

\* _handle_stats: get_user_stats reads the quiz history of the user
handle_stats(d, user_id) ==
    IF get_user_quiz_history(d, user_id).raised THEN "raises" ELSE "stats text"

NoQuizData == <<>>

\* the one request the agent serves at a time
Serving == "r1"

Waiting == {"decide_wait", "chat_wait", "quiz_wait", "prediction_wait"}

\* the state a waiting call is in once requests.post has returned or raised
Got(wait) ==
    CASE wait = "decide_wait" -> "decide_got"
      [] wait = "chat_wait" -> "chat_got"
      [] wait = "quiz_wait" -> "quiz_got"
      [] wait = "prediction_wait" -> "prediction_got"

\* POST /api/chat up to the requests.post of decide_action, which sets no timeout
ChatArrives(user_id, message) ==
    /\ pc[Serving] \in {"idle", "done"}
    /\ Len(db.chat_history) < MaxMessages
    /\ db' = IF get_user(db, user_id) = << >>
             THEN create_user(db, user_id, "General").db ELSE db
    /\ request' = [op |-> "chat", user_id |-> user_id, message |-> message]
    /\ response' = NoResponse
    /\ local' = [local EXCEPT ![Serving] =
                    [op |-> "chat", user_id |-> user_id, message |-> message,
                     team |-> "", level |-> 1, team1 |-> "", team2 |-> "",
                     timeout |-> FALSE, reply |-> RequestException]]
    /\ pc' = [pc EXCEPT ![Serving] = "decide_wait"]
    /\ UNCHANGED <<ledger, faults, db0>>

\* QuizGeneratorTool.generate_quiz up to the requests.post of _generate_via_api,
\* which sets timeout=30
QuizToolCalled(team, level) ==
    /\ pc[Serving] \in {"idle", "done"}
    /\ request' = [op |-> "quiz_tool", team |-> team, level |-> level]
    /\ response' = NoResponse
    /\ local' = [local EXCEPT ![Serving] =
                    [op |-> "quiz_tool", user_id |-> "", message |-> "",
                     team |-> team, level |-> level, team1 |-> "", team2 |-> "",
                     timeout |-> TRUE, reply |-> RequestException]]
    /\ pc' = [pc EXCEPT ![Serving] = "quiz_wait"]
    /\ UNCHANGED <<db, ledger, faults, db0>>

\* the generator answers the pending call, or the connection fails
GeneratorAnswers(reply) ==
    /\ pc[Serving] \in Waiting
    /\ local' = [local EXCEPT ![Serving].reply = reply]
    /\ pc' = [pc EXCEPT ![Serving] = Got(@)]
    /\ UNCHANGED <<db, request, response, ledger, faults, db0>>

\* the timeout of the pending call, where it has one, expires: requests.post
\* raises Timeout
TimeoutExpires ==
    /\ pc[Serving] \in Waiting
    /\ local[Serving].timeout
    /\ local' = [local EXCEPT ![Serving].reply = Timeout]
    /\ pc' = [pc EXCEPT ![Serving] = Got(@)]
    /\ UNCHANGED <<db, request, response, ledger, faults, db0>>

\* process_message from the return of requests.post in decide_action to the
\* next requests.post, or to its end when the action needs no generator
Decided ==
    /\ pc[Serving] = "decide_got"
    /\ LET l == local[Serving]
           decision == decide_action(l.reply, l.message)
           params == decision.params
           user == get_user(db, l.user_id)[1]
           teams == extract_teams_from_message(l.message)
           end(text, tool) == process_message_end(db, l.user_id, l.message, text, tool,
                                                  decision.action, NoQuizData)
       IN  IF decision.action \in {"quiz", "prediction"} /\ params.null
           THEN \* params.get of None: AttributeError
                /\ db' = db /\ response' = Error500("chat")
                /\ local' = local /\ pc' = [pc EXCEPT ![Serving] = "done"]
           ELSE IF decision.action = "quiz"
           THEN /\ db' = db /\ response' = response
                /\ local' = [local EXCEPT ![Serving].team =
                                IF params.team # "" THEN params.team
                                ELSE user.favorite_team,
                             ![Serving].timeout = TRUE]
                /\ pc' = [pc EXCEPT ![Serving] = "quiz_wait"]
           ELSE IF decision.action = "prediction"
           THEN IF params.team1 # "" /\ params.team2 # ""
                THEN /\ db' = db /\ response' = response
                     /\ local' = [local EXCEPT ![Serving].team1 = params.team1,
                                               ![Serving].team2 = params.team2]
                     /\ pc' = [pc EXCEPT ![Serving] = "prediction_wait"]
                ELSE IF Len(teams) >= 2
                THEN /\ db' = db /\ response' = response
                     /\ local' = [local EXCEPT ![Serving].team1 = teams[1],
                                               ![Serving].team2 = teams[2]]
                     /\ pc' = [pc EXCEPT ![Serving] = "prediction_wait"]
                ELSE /\ db' = end("specify two teams", "prediction").db
                     /\ response' = end("specify two teams", "prediction").response
                     /\ local' = local /\ pc' = [pc EXCEPT ![Serving] = "done"]
           ELSE IF decision.action = "stats"
           THEN IF handle_stats(db, l.user_id) = "raises"
                THEN /\ db' = db /\ response' = Error500("chat")
                     /\ local' = local /\ pc' = [pc EXCEPT ![Serving] = "done"]
                ELSE /\ db' = end("stats text", "stats").db
                     /\ response' = end("stats text", "stats").response
                     /\ local' = local /\ pc' = [pc EXCEPT ![Serving] = "done"]
           ELSE /\ db' = db /\ response' = response
                /\ local' = local
                /\ pc' = [pc EXCEPT ![Serving] = "chat_wait"]
    /\ UNCHANGED <<request, ledger, faults, db0>>

\* process_message from the return of requests.post in _handle_chat to its end
ChatAnswered ==
    /\ pc[Serving] = "chat_got"
    /\ LET l == local[Serving]
           r == process_message_end(db, l.user_id, l.message, handle_chat(l.reply),
                                    "chat", "chat", NoQuizData)
       IN  db' = r.db /\ response' = r.response
    /\ pc' = [pc EXCEPT ![Serving] = "done"]
    /\ UNCHANGED <<request, local, ledger, faults, db0>>

\* generate_quiz from the return of requests.post to its end, and for a chat
\* message _handle_quiz and process_message to their end
QuizAnswered ==
    /\ pc[Serving] = "quiz_got"
    /\ LET l == local[Serving]
           quiz == QuizGeneratorTool_generate_quiz(l.reply, l.team, l.level)
           r == process_message_end(db, l.user_id, l.message, "quiz text", "quiz", "quiz",
                                    <<[team |-> l.team, level |-> l.level,
                                       questions |-> quiz.questions]>>)
       IN  IF l.op = "quiz_tool"
           THEN /\ db' = db
                /\ response' = [op |-> "quiz_tool", status |-> 200, team |-> quiz.team,
                                level |-> quiz.level, questions |-> quiz.questions]
           ELSE db' = r.db /\ response' = r.response
    /\ pc' = [pc EXCEPT ![Serving] = "done"]
    /\ UNCHANGED <<request, local, ledger, faults, db0>>

\* predict_outcome from the return of requests.post to its end, then
\* _handle_prediction and process_message to their end
PredictionAnswered ==
    /\ pc[Serving] = "prediction_got"
    /\ LET l == local[Serving]
           pred == predict_outcome(l.reply, l.team1, l.team2)
           d1 == add_prediction(db, l.user_id, pred.team1, pred.team2, pred.predicted_winner)
           r == process_message_end(d1, l.user_id, l.message, "prediction text",
                                    "prediction", "prediction", NoQuizData)
       IN  db' = r.db /\ response' = r.response
    /\ pc' = [pc EXCEPT ![Serving] = "done"]
    /\ UNCHANGED <<request, local, ledger, faults, db0>>

HandlerStep == Decided \/ ChatAnswered \/ QuizAnswered \/ PredictionAnswered

NextGenerator ==
    \/ \E message \in Messages : ChatArrives("alice", message)
    \/ \E team \in all_teams \cup {"General"}, level \in {0, 1, 10} : QuizToolCalled(team, level)
    \/ \E reply \in GeneratorReplies : GeneratorAnswers(reply)
    \/ TimeoutExpires
    \/ Decided
    \/ ChatAnswered
    \/ QuizAnswered
    \/ PredictionAnswered

SpecGenerator == Init /\ [][NextGenerator]_vars

\* the handler runs on whenever it can and a timeout that is set expires; the
\* generator owes no answer
SpecGeneratorLive ==
    SpecGenerator /\ WF_vars(HandlerStep) /\ WF_vars(TimeoutExpires)

\* C33: whatever the generator does, generate_quiz and the chat handler return
\* a formed result without raising: the reply to a chat message that
\* _handle_chat serves has status 200 and a text, a quiz has questions, and
\* when the generator gave none they are the local questions of the requested
\* team (for a team of all_teams).
C33_GeneratorFailureNeverSurfaces ==
    [][/\ ChatAnswered => response'.status = 200
       /\ QuizAnswered =>
            LET l == local[Serving]
                questions == IF l.op = "quiz_tool" THEN response'.questions
                             ELSE response'.quiz_data[1].questions
            IN  /\ response'.status = 200
                /\ questions.count > 0
                /\ (~(HasContent(l.reply) /\ l.reply.body = "quiz_ok") /\ l.team \in all_teams)
                      => questions.source = "local" /\ questions.team = l.team]_vars

\* C34: every request that calls the generator eventually produces a response,
\* even if the generator never answers: a call that is waiting for the
\* generator leads to the end of the request.
C34_WaitingLeadsToResponse ==
    (pc[Serving] \in Waiting) ~> (pc[Serving] = "done")

(* Prediction rows, their history and their statistics *)

\* get_user_predictions: the rows of the user, newest first, each with the
\* is_correct flag derived from the row
get_user_predictions(d, user_id) ==
    LET rows == SelectSeq(d.predictions, LAMBDA row : row.user_id = user_id)
    IN  Reverse([i \in DOMAIN rows |->
                    [user_prediction |-> rows[i].predicted_winner,
                     system_outcome |-> rows[i].actual_outcome,
                     points_earned |-> rows[i].points_earned,
                     is_correct |-> rows[i].predicted_winner = rows[i].actual_outcome]])

RECURSIVE SumPointsEarned(_)
SumPointsEarned(rows) ==
    IF rows = << >> THEN 0 ELSE Head(rows).points_earned + SumPointsEarned(Tail(rows))

\* get_prediction_stats, without the two quotients
get_prediction_stats(d, user_id) ==
    LET rows == SelectSeq(d.predictions, LAMBDA row : row.user_id = user_id)
    IN  [total_predictions |-> Len(rows),
         correct_predictions |->
            Cardinality({i \in DOMAIN rows : rows[i].predicted_winner = rows[i].actual_outcome}),
         total_points |-> SumPointsEarned(rows)]

\* GET /api/predictions/history/{user_id}
GetPredictionHistory(user_id) ==
    /\ request' = [op |-> "prediction_history", user_id |-> user_id]
    /\ response' = [op |-> "prediction_history", status |-> 200,
                    predictions |-> get_user_predictions(db, user_id),
                    total |-> Len(get_user_predictions(db, user_id))]
    /\ UNCHANGED <<db, ledger, faults, concurrent_vars>>

\* GET /api/predictions/stats/{user_id}
GetPredictionStats(user_id) ==
    /\ request' = [op |-> "prediction_stats", user_id |-> user_id]
    /\ response' = [op |-> "prediction_stats", status |-> 200,
                    stats |-> get_prediction_stats(db, user_id)]
    /\ UNCHANGED <<db, ledger, faults, concurrent_vars>>

\* the replies of the generator to a message that asks for a prediction
PredictionReplies ==
    {RequestException}
    \cup {[raised |-> FALSE, status_code |-> 200, body |-> b] :
            b \in {"decision_prediction", "prediction_ok"}}

NextPredictionRows ==
    \/ \E req \in PredictionRequests({"alice"}), t1_wins \in BOOLEAN :
            SubmitPrediction(req, t1_wins, 0)
    \/ ChatArrives("alice", "Lakers vs Celtics")
    \/ \E reply \in PredictionReplies : GeneratorAnswers(reply)
    \/ Decided
    \/ ChatAnswered
    \/ PredictionAnswered
    \/ GetPredictionHistory("alice")
    \/ GetPredictionStats("alice")

SpecPredictionRows == Init /\ [][NextPredictionRows]_vars

\* C36: every stored prediction row has points_earned > 0 exactly when its
\* predicted_winner equals its actual_outcome, so the is_correct flag of the
\* history and the correct_predictions count of the statistics agree with the
\* points awarded.
C36_PointsIffWinnerIsOutcome ==
    /\ \A i \in DOMAIN db.predictions :
            db.predictions[i].points_earned > 0
                <=> db.predictions[i].predicted_winner = db.predictions[i].actual_outcome
    /\ \A u \in UserIds :
            LET history == get_user_predictions(db, u)
            IN  /\ \A i \in DOMAIN history :
                        history[i].is_correct <=> history[i].points_earned > 0
                /\ get_prediction_stats(db, u).correct_predictions =
                        Cardinality({i \in DOMAIN history : history[i].points_earned > 0})

\* a rewarded submission and a prediction of the chat, which has no outcome, are
\* both stored, and the statistics were read
C36_Witness ==
    /\ \E i, j \in DOMAIN db.predictions :
            /\ db.predictions[i].points_earned > 0
            /\ db.predictions[j].actual_outcome = "NULL"
    /\ response.op = "prediction_stats"
    /\ response.stats.correct_predictions = 1
    /\ response.stats.total_predictions = 2

====
